---- MODULE Spec2Model ----
(***************************************************************************)
(* Continuous Compliance Engine: the check-run orchestration               *)
(* (scripts/run_checks.py), the registry loader (controls/loader.py), the  *)
(* evaluator (evaluator/evaluate.py), the collectors (collectors/*.py) and *)
(* the audit store's tables and uniqueness constraints (db/models.py).     *)
(*                                                                         *)
(* Python dicts are functions with string domains; d.get(k, default) is    *)
(* Get(d, k, default).  Timestamps are small naturals, uuid4() a fresh     *)
(* number.  A database session holds its flushed, uncommitted rows in      *)
(* sess[s]; the committed tables are what every other session reads.       *)
(***************************************************************************)
EXTENDS Integers, Sequences, FiniteSets, TLC

\* ------------------------------------------------------------------ bounds
MaxRuns == 3           \* serialized invocations in a behaviour, any timestamps
MaxTime == 3           \* their timestamps are 1..MaxTime
MaxMonoRuns == 4       \* serialized invocations with increasing timestamps
MaxOverlapRuns == 2    \* invocations that may overlap
MaxEdits == 1          \* edits of the controls directory in a behaviour

Sessions == {1, 2}
Times == 1..MaxTime
MonoTimes == 1..MaxMonoRuns

\* ----------------------------------------------------------------- helpers
EmptyDict == <<>>

Get(d, k, default) == IF k \in DOMAIN d THEN d[k] ELSE default

\* bool(d) of a dict
Truthy(d) == DOMAIN d # {}

isoformat(t) == ToString(t)

\* ------------------------------------------------------------- collectors
github_snapshot ==
  [ branch_protection |->
      [ main   |-> [ enabled |-> TRUE, required_approving_review_count |-> 2,
                     enforce_admins |-> TRUE ],
        master |-> [ enabled |-> TRUE, required_approving_review_count |-> 2,
                     enforce_admins |-> TRUE ] ],
    pr_reviews_required |-> TRUE,
    production_deploy_approvals_required |-> TRUE ]

collect_github_evidence(control_id, collected_at) ==
  [ collected_at |-> isoformat(collected_at),
    source_system |-> "github",
    raw_snapshot |-> github_snapshot ]

\* drift is os.getenv("SIMULATE_DRIFT", "0") == "1"
collect_iam_evidence(control_id, collected_at, drift) ==
  IF drift /\ control_id = "CC6.1"
  THEN [ collected_at |-> isoformat(collected_at),
         source_system |-> "cloud_iam",
         raw_snapshot |->
           [ mfa_required_for_privileged_users |-> FALSE,
             admin_access_restricted |-> TRUE,
             total_admin_users |-> 2,
             admin_users_without_mfa |-> 2 ] ]
  ELSE [ collected_at |-> isoformat(collected_at),
         source_system |-> "cloud_iam",
         raw_snapshot |->
           [ mfa_required_for_privileged_users |-> TRUE,
             admin_access_restricted |-> TRUE,
             total_admin_users |-> 2,
             admin_users_without_mfa |-> 0 ] ]

collect_logging_evidence(control_id, collected_at) ==
  [ collected_at |-> isoformat(collected_at),
    source_system |-> "cicd",
    raw_snapshot |->
      [ centralized_logging_enabled |-> TRUE,
        log_retention_days |-> 90,
        log_aggregation_system |-> "cloudwatch_logs" ] ]

KnownSources == {"github", "cloud_iam", "cicd"}

\* mutant: the fallback returns empty evidence, as its comment says
_collect_evidence_for_source_empty(control_id, source_system, collected_at, drift) ==
  IF source_system = "github" THEN collect_github_evidence(control_id, collected_at)
  ELSE IF source_system = "cloud_iam" THEN collect_iam_evidence(control_id, collected_at, drift)
  ELSE IF source_system = "cicd" THEN collect_logging_evidence(control_id, collected_at)
  ELSE [ collected_at |-> isoformat(collected_at),
         source_system |-> source_system,
         raw_snapshot |-> EmptyDict ]

UnknownSourceError(source_system) == "Unknown source system: " \o source_system

_collect_evidence_for_source(control_id, source_system, collected_at, drift) ==
  IF source_system = "github" THEN collect_github_evidence(control_id, collected_at)
  ELSE IF source_system = "cloud_iam" THEN collect_iam_evidence(control_id, collected_at, drift)
  ELSE IF source_system = "cicd" THEN collect_logging_evidence(control_id, collected_at)
  ELSE [ collected_at |-> isoformat(collected_at),
         source_system |-> source_system,
         raw_snapshot |-> [ error |-> UnknownSourceError(source_system) ] ]

\* -------------------------------------------------------------- evaluator
NoAction == "No action required."

cc6_1_remediation ==
  "1. Enable MFA enforcement policy for all privileged roles.\n"
  \o "2. Review and restrict admin role assignments to minimum necessary users.\n"
  \o "3. Verify all admin users have MFA devices enrolled."

\* mutant: the count of admin users without MFA is not looked at
_evaluate_cc6_1_flags_only(control, evidence_by_source, expected) ==
  LET iam_evidence == Get(evidence_by_source, "cloud_iam", EmptyDict)
      snapshot == Get(iam_evidence, "raw_snapshot", EmptyDict)
      mfa_required == Get(expected, "mfa_required_for_privileged_users", FALSE)
      admin_restricted == Get(expected, "admin_access_restricted", FALSE)
      actual_mfa == Get(snapshot, "mfa_required_for_privileged_users", FALSE)
      actual_admin_restricted == Get(snapshot, "admin_access_restricted", FALSE)
      admin_without_mfa == Get(snapshot, "admin_users_without_mfa", 999)
      issues ==
        (IF mfa_required /\ ~actual_mfa
           THEN <<"MFA not required for privileged users">> ELSE <<>>)
        \o (IF admin_restricted /\ ~actual_admin_restricted
              THEN <<"Admin access not properly restricted">> ELSE <<>>)
  IN IF issues # <<>>
     THEN [ status |-> "FAIL",
            severity |-> control.severity,
            remediation |-> cc6_1_remediation,
            details |->
              [ issues |-> issues,
                expected |-> expected,
                actual |->
                  [ mfa_required_for_privileged_users |-> actual_mfa,
                    admin_access_restricted |-> actual_admin_restricted,
                    admin_users_without_mfa |-> admin_without_mfa ] ] ]
     ELSE [ status |-> "PASS",
            severity |-> control.severity,
            remediation |-> NoAction,
            details |->
              [ expected |-> expected,
                actual |->
                  [ mfa_required_for_privileged_users |-> actual_mfa,
                    admin_access_restricted |-> actual_admin_restricted ] ] ]

\* mutant: a snapshot without the count is read as reporting none
_evaluate_cc6_1_zero_default(control, evidence_by_source, expected) ==
  LET iam_evidence == Get(evidence_by_source, "cloud_iam", EmptyDict)
      snapshot == Get(iam_evidence, "raw_snapshot", EmptyDict)
      mfa_required == Get(expected, "mfa_required_for_privileged_users", FALSE)
      admin_restricted == Get(expected, "admin_access_restricted", FALSE)
      actual_mfa == Get(snapshot, "mfa_required_for_privileged_users", FALSE)
      actual_admin_restricted == Get(snapshot, "admin_access_restricted", FALSE)
      admin_without_mfa == Get(snapshot, "admin_users_without_mfa", 0)
      issues ==
        (IF mfa_required /\ ~actual_mfa
           THEN <<"MFA not required for privileged users">> ELSE <<>>)
        \o (IF admin_restricted /\ ~actual_admin_restricted
              THEN <<"Admin access not properly restricted">> ELSE <<>>)
        \o (IF admin_without_mfa > 0
              THEN <<ToString(admin_without_mfa) \o " admin user(s) without MFA">>
              ELSE <<>>)
  IN IF issues # <<>>
     THEN [ status |-> "FAIL",
            severity |-> control.severity,
            remediation |-> cc6_1_remediation,
            details |->
              [ issues |-> issues,
                expected |-> expected,
                actual |->
                  [ mfa_required_for_privileged_users |-> actual_mfa,
                    admin_access_restricted |-> actual_admin_restricted,
                    admin_users_without_mfa |-> admin_without_mfa ] ] ]
     ELSE [ status |-> "PASS",
            severity |-> control.severity,
            remediation |-> NoAction,
            details |->
              [ expected |-> expected,
                actual |->
                  [ mfa_required_for_privileged_users |-> actual_mfa,
                    admin_access_restricted |-> actual_admin_restricted ] ] ]

_evaluate_cc6_1(control, evidence_by_source, expected) ==
  LET iam_evidence == Get(evidence_by_source, "cloud_iam", EmptyDict)
      snapshot == Get(iam_evidence, "raw_snapshot", EmptyDict)
      mfa_required == Get(expected, "mfa_required_for_privileged_users", FALSE)
      admin_restricted == Get(expected, "admin_access_restricted", FALSE)
      actual_mfa == Get(snapshot, "mfa_required_for_privileged_users", FALSE)
      actual_admin_restricted == Get(snapshot, "admin_access_restricted", FALSE)
      admin_without_mfa == Get(snapshot, "admin_users_without_mfa", 999)
      issues ==
        (IF mfa_required /\ ~actual_mfa
           THEN <<"MFA not required for privileged users">> ELSE <<>>)
        \o (IF admin_restricted /\ ~actual_admin_restricted
              THEN <<"Admin access not properly restricted">> ELSE <<>>)
        \o (IF admin_without_mfa > 0
              THEN <<ToString(admin_without_mfa) \o " admin user(s) without MFA">>
              ELSE <<>>)
  IN IF issues # <<>>
     THEN [ status |-> "FAIL",
            severity |-> control.severity,
            remediation |-> cc6_1_remediation,
            details |->
              [ issues |-> issues,
                expected |-> expected,
                actual |->
                  [ mfa_required_for_privileged_users |-> actual_mfa,
                    admin_access_restricted |-> actual_admin_restricted,
                    admin_users_without_mfa |-> admin_without_mfa ] ] ]
     ELSE [ status |-> "PASS",
            severity |-> control.severity,
            remediation |-> NoAction,
            details |->
              [ expected |-> expected,
                actual |->
                  [ mfa_required_for_privileged_users |-> actual_mfa,
                    admin_access_restricted |-> actual_admin_restricted ] ] ]

cc7_2_remediation(expected_retention_min) ==
  "1. Enable centralized log shipping from all production systems.\n"
  \o "2. Configure log retention policy to retain logs for at least "
  \o ToString(expected_retention_min) \o " days.\n"
  \o "3. Verify log aggregation system is receiving logs from all critical sources."

\* mutant: a retention equal to the minimum is below it
_evaluate_cc7_2_inclusive(control, evidence_by_source, expected) ==
  LET cicd_evidence == Get(evidence_by_source, "cicd", EmptyDict)
      snapshot == Get(cicd_evidence, "raw_snapshot", EmptyDict)
      expected_enabled == Get(expected, "centralized_logging_enabled", FALSE)
      expected_retention_min == Get(expected, "log_retention_days_minimum", 0)
      actual_enabled == Get(snapshot, "centralized_logging_enabled", FALSE)
      actual_retention == Get(snapshot, "log_retention_days", 0)
      issues ==
        (IF expected_enabled /\ ~actual_enabled
           THEN <<"Centralized logging not enabled">> ELSE <<>>)
        \o (IF actual_retention <= expected_retention_min
              THEN <<"Log retention " \o ToString(actual_retention)
                     \o " days is below minimum "
                     \o ToString(expected_retention_min) \o " days">>
              ELSE <<>>)
      actual == [ centralized_logging_enabled |-> actual_enabled,
                  log_retention_days |-> actual_retention ]
  IN IF issues # <<>>
     THEN [ status |-> "FAIL",
            severity |-> control.severity,
            remediation |-> cc7_2_remediation(expected_retention_min),
            details |-> [ issues |-> issues, expected |-> expected, actual |-> actual ] ]
     ELSE [ status |-> "PASS",
            severity |-> control.severity,
            remediation |-> NoAction,
            details |-> [ expected |-> expected, actual |-> actual ] ]

\* mutant: the checks stop at the first unmet expectation
_evaluate_cc7_2_first_issue(control, evidence_by_source, expected) ==
  LET cicd_evidence == Get(evidence_by_source, "cicd", EmptyDict)
      snapshot == Get(cicd_evidence, "raw_snapshot", EmptyDict)
      expected_enabled == Get(expected, "centralized_logging_enabled", FALSE)
      expected_retention_min == Get(expected, "log_retention_days_minimum", 0)
      actual_enabled == Get(snapshot, "centralized_logging_enabled", FALSE)
      actual_retention == Get(snapshot, "log_retention_days", 0)
      issues ==
        IF expected_enabled /\ ~actual_enabled
        THEN <<"Centralized logging not enabled">>
        ELSE IF actual_retention < expected_retention_min
        THEN <<"Log retention " \o ToString(actual_retention)
               \o " days is below minimum "
               \o ToString(expected_retention_min) \o " days">>
        ELSE <<>>
      actual == [ centralized_logging_enabled |-> actual_enabled,
                  log_retention_days |-> actual_retention ]
  IN IF issues # <<>>
     THEN [ status |-> "FAIL",
            severity |-> control.severity,
            remediation |-> cc7_2_remediation(expected_retention_min),
            details |-> [ issues |-> issues, expected |-> expected, actual |-> actual ] ]
     ELSE [ status |-> "PASS",
            severity |-> control.severity,
            remediation |-> NoAction,
            details |-> [ expected |-> expected, actual |-> actual ] ]

_evaluate_cc7_2(control, evidence_by_source, expected) ==
  LET cicd_evidence == Get(evidence_by_source, "cicd", EmptyDict)
      snapshot == Get(cicd_evidence, "raw_snapshot", EmptyDict)
      expected_enabled == Get(expected, "centralized_logging_enabled", FALSE)
      expected_retention_min == Get(expected, "log_retention_days_minimum", 0)
      actual_enabled == Get(snapshot, "centralized_logging_enabled", FALSE)
      actual_retention == Get(snapshot, "log_retention_days", 0)
      issues ==
        (IF expected_enabled /\ ~actual_enabled
           THEN <<"Centralized logging not enabled">> ELSE <<>>)
        \o (IF actual_retention < expected_retention_min
              THEN <<"Log retention " \o ToString(actual_retention)
                     \o " days is below minimum "
                     \o ToString(expected_retention_min) \o " days">>
              ELSE <<>>)
      actual == [ centralized_logging_enabled |-> actual_enabled,
                  log_retention_days |-> actual_retention ]
  IN IF issues # <<>>
     THEN [ status |-> "FAIL",
            severity |-> control.severity,
            remediation |-> cc7_2_remediation(expected_retention_min),
            details |-> [ issues |-> issues, expected |-> expected, actual |-> actual ] ]
     ELSE [ status |-> "PASS",
            severity |-> control.severity,
            remediation |-> NoAction,
            details |-> [ expected |-> expected, actual |-> actual ] ]

cc8_1_remediation ==
  "1. Enable branch protection rules for main/master branch.\n"
  \o "2. Require at least 2 PR approvals before merge.\n"
  \o "3. Enforce admin approval requirements for production deployments.\n"
  \o "4. Verify CI/CD pipeline blocks deployments without approvals."

\* mutant: one approving review is enough
_evaluate_cc8_1_one_approval(control, evidence_by_source, expected) ==
  LET github_evidence == Get(evidence_by_source, "github", EmptyDict)
      cicd_evidence == Get(evidence_by_source, "cicd", EmptyDict)
      github_snapshot_ == Get(github_evidence, "raw_snapshot", EmptyDict)
      cicd_snapshot == Get(cicd_evidence, "raw_snapshot", EmptyDict)
      expected_pr_reviews == Get(expected, "pr_reviews_required", FALSE)
      expected_deploy_approvals ==
        Get(expected, "production_deploy_approvals_required", FALSE)
      branch_protection == Get(github_snapshot_, "branch_protection", EmptyDict)
      \* branch_protection.get("main") or branch_protection.get("master", {})
      main_protection ==
        IF "main" \in DOMAIN branch_protection /\ Truthy(branch_protection["main"])
        THEN branch_protection["main"]
        ELSE Get(branch_protection, "master", EmptyDict)
      actual_pr_reviews ==
        \/ Get(github_snapshot_, "pr_reviews_required", FALSE)
        \/ Get(main_protection, "required_approving_review_count", 0) >= 1
      actual_deploy_approvals ==
        \/ Get(github_snapshot_, "production_deploy_approvals_required", FALSE)
        \/ Get(cicd_snapshot, "production_deploy_approvals_required", FALSE)
        \/ Get(main_protection, "enforce_admins", FALSE)
      issues ==
        (IF expected_pr_reviews /\ ~actual_pr_reviews
           THEN <<"PR reviews not required for production branches">> ELSE <<>>)
        \o (IF expected_deploy_approvals /\ ~actual_deploy_approvals
              THEN <<"Production deploy approvals not enforced">> ELSE <<>>)
  IN IF issues # <<>>
     THEN [ status |-> "FAIL",
            severity |-> control.severity,
            remediation |-> cc8_1_remediation,
            details |->
              [ issues |-> issues,
                expected |-> expected,
                actual |->
                  [ pr_reviews_required |-> actual_pr_reviews,
                    production_deploy_approvals_required |-> actual_deploy_approvals,
                    branch_protection |-> main_protection ] ] ]
     ELSE [ status |-> "PASS",
            severity |-> control.severity,
            remediation |-> NoAction,
            details |->
              [ expected |-> expected,
                actual |->
                  [ pr_reviews_required |-> actual_pr_reviews,
                    production_deploy_approvals_required |-> actual_deploy_approvals ] ] ]

\* mutant: the remediation lists the steps of the issues that fired
_evaluate_cc8_1_remediation_by_issue(control, evidence_by_source, expected) ==
  LET github_evidence == Get(evidence_by_source, "github", EmptyDict)
      cicd_evidence == Get(evidence_by_source, "cicd", EmptyDict)
      github_snapshot_ == Get(github_evidence, "raw_snapshot", EmptyDict)
      cicd_snapshot == Get(cicd_evidence, "raw_snapshot", EmptyDict)
      expected_pr_reviews == Get(expected, "pr_reviews_required", FALSE)
      expected_deploy_approvals ==
        Get(expected, "production_deploy_approvals_required", FALSE)
      branch_protection == Get(github_snapshot_, "branch_protection", EmptyDict)
      main_protection ==
        IF "main" \in DOMAIN branch_protection /\ Truthy(branch_protection["main"])
        THEN branch_protection["main"]
        ELSE Get(branch_protection, "master", EmptyDict)
      actual_pr_reviews ==
        \/ Get(github_snapshot_, "pr_reviews_required", FALSE)
        \/ Get(main_protection, "required_approving_review_count", 0) >= 2
      actual_deploy_approvals ==
        \/ Get(github_snapshot_, "production_deploy_approvals_required", FALSE)
        \/ Get(cicd_snapshot, "production_deploy_approvals_required", FALSE)
        \/ Get(main_protection, "enforce_admins", FALSE)
      pr_issue == expected_pr_reviews /\ ~actual_pr_reviews
      deploy_issue == expected_deploy_approvals /\ ~actual_deploy_approvals
      issues ==
        (IF pr_issue
           THEN <<"PR reviews not required for production branches">> ELSE <<>>)
        \o (IF deploy_issue
              THEN <<"Production deploy approvals not enforced">> ELSE <<>>)
  IN IF issues # <<>>
     THEN [ status |-> "FAIL",
            severity |-> control.severity,
            remediation |->
              (IF pr_issue
                 THEN "1. Enable branch protection rules for main/master branch.\n"
                      \o "2. Require at least 2 PR approvals before merge.\n"
                 ELSE "")
              \o (IF deploy_issue
                    THEN "3. Enforce admin approval requirements for production deployments.\n"
                         \o "4. Verify CI/CD pipeline blocks deployments without approvals."
                    ELSE ""),
            details |->
              [ issues |-> issues,
                expected |-> expected,
                actual |->
                  [ pr_reviews_required |-> actual_pr_reviews,
                    production_deploy_approvals_required |-> actual_deploy_approvals,
                    branch_protection |-> main_protection ] ] ]
     ELSE [ status |-> "PASS",
            severity |-> control.severity,
            remediation |-> NoAction,
            details |->
              [ expected |-> expected,
                actual |->
                  [ pr_reviews_required |-> actual_pr_reviews,
                    production_deploy_approvals_required |-> actual_deploy_approvals ] ] ]

_evaluate_cc8_1(control, evidence_by_source, expected) ==
  LET github_evidence == Get(evidence_by_source, "github", EmptyDict)
      cicd_evidence == Get(evidence_by_source, "cicd", EmptyDict)
      github_snapshot_ == Get(github_evidence, "raw_snapshot", EmptyDict)
      cicd_snapshot == Get(cicd_evidence, "raw_snapshot", EmptyDict)
      expected_pr_reviews == Get(expected, "pr_reviews_required", FALSE)
      expected_deploy_approvals ==
        Get(expected, "production_deploy_approvals_required", FALSE)
      branch_protection == Get(github_snapshot_, "branch_protection", EmptyDict)
      \* branch_protection.get("main") or branch_protection.get("master", {})
      main_protection ==
        IF "main" \in DOMAIN branch_protection /\ Truthy(branch_protection["main"])
        THEN branch_protection["main"]
        ELSE Get(branch_protection, "master", EmptyDict)
      actual_pr_reviews ==
        \/ Get(github_snapshot_, "pr_reviews_required", FALSE)
        \/ Get(main_protection, "required_approving_review_count", 0) >= 2
      actual_deploy_approvals ==
        \/ Get(github_snapshot_, "production_deploy_approvals_required", FALSE)
        \/ Get(cicd_snapshot, "production_deploy_approvals_required", FALSE)
        \/ Get(main_protection, "enforce_admins", FALSE)
      issues ==
        (IF expected_pr_reviews /\ ~actual_pr_reviews
           THEN <<"PR reviews not required for production branches">> ELSE <<>>)
        \o (IF expected_deploy_approvals /\ ~actual_deploy_approvals
              THEN <<"Production deploy approvals not enforced">> ELSE <<>>)
  IN IF issues # <<>>
     THEN [ status |-> "FAIL",
            severity |-> control.severity,
            remediation |-> cc8_1_remediation,
            details |->
              [ issues |-> issues,
                expected |-> expected,
                actual |->
                  [ pr_reviews_required |-> actual_pr_reviews,
                    production_deploy_approvals_required |-> actual_deploy_approvals,
                    branch_protection |-> main_protection ] ] ]
     ELSE [ status |-> "PASS",
            severity |-> control.severity,
            remediation |-> NoAction,
            details |->
              [ expected |-> expected,
                actual |->
                  [ pr_reviews_required |-> actual_pr_reviews,
                    production_deploy_approvals_required |-> actual_deploy_approvals ] ] ]

unknown_control_verdict(control) ==
  [ status |-> "FAIL",
    severity |-> control.severity,
    remediation |-> "Unknown control " \o control.control_id
                    \o ". Implement evaluator logic.",
    details |-> [ error |-> "unknown_control" ] ]

\* mutant: every verdict is reported with severity high
evaluate_control_always_high(control, evidence_by_source) ==
  LET expected == control.expected_state
      control_id == control.control_id
      verdict ==
        IF control_id = "CC6.1" THEN _evaluate_cc6_1(control, evidence_by_source, expected)
        ELSE IF control_id = "CC7.2" THEN _evaluate_cc7_2(control, evidence_by_source, expected)
        ELSE IF control_id = "CC8.1" THEN _evaluate_cc8_1(control, evidence_by_source, expected)
        ELSE unknown_control_verdict(control)
  IN [verdict EXCEPT !.severity = "high"]

evaluate_control(control, evidence_by_source) ==
  LET expected == control.expected_state
      control_id == control.control_id
  IN IF control_id = "CC6.1" THEN _evaluate_cc6_1(control, evidence_by_source, expected)
     ELSE IF control_id = "CC7.2" THEN _evaluate_cc7_2(control, evidence_by_source, expected)
     ELSE IF control_id = "CC8.1" THEN _evaluate_cc8_1(control, evidence_by_source, expected)
     ELSE unknown_control_verdict(control)

\* ------------------------------------------------- controls directory (YAML)
\* A YAML document is a dict; an evidence_sources entry is a string, a mapping
\* or something else ("kind" is the Python type yaml.safe_load produced).
SrcStr(name) == [ kind |-> "str", value |-> name ]
SrcDict(d) == [ kind |-> "dict", value |-> d ]

cc6_1_expected ==
  [ mfa_required_for_privileged_users |-> TRUE, admin_access_restricted |-> TRUE ]

Doc(control_id, name, expected_state, sources, severity) ==
  [ control_id |-> control_id, name |-> name, risk |-> "risk of " \o control_id,
    expected_state |-> expected_state, evidence_sources |-> sources,
    severity |-> severity, check_frequency |-> "daily" ]

\* the three reference controls the collectors and the evaluator are written for
cc6_1_doc == Doc("CC6.1", "Logical Access Controls", cc6_1_expected,
                 <<SrcDict([system |-> "cloud_iam"])>>, "high")
cc7_2_doc == Doc("CC7.2", "Logging and Monitoring",
                 [ centralized_logging_enabled |-> TRUE, log_retention_days_minimum |-> 90 ],
                 <<SrcStr("cicd")>>, "medium")
cc8_1_doc == Doc("CC8.1", "Change Management",
                 [ pr_reviews_required |-> TRUE, production_deploy_approvals_required |-> TRUE ],
                 <<SrcDict([system |-> "github"]), SrcDict([system |-> "cicd"])>>, "high")

\* a document without the optional evidence_sources key
NoSourcesKey(doc) == [ k \in DOMAIN doc \ {"evidence_sources"} |-> doc[k] ]

\* what an edit may put in the file of CC6.1
cc6_1_options ==
  { cc6_1_doc,
    [cc6_1_doc EXCEPT !.severity = "medium"],
    [cc6_1_doc EXCEPT !.severity = "LOW"],
    NoSourcesKey(cc6_1_doc),
    [cc6_1_doc EXCEPT !.evidence_sources = <<SrcStr("cloud_iam"), SrcStr("cloud_iam")>>],
    [cc6_1_doc EXCEPT !.evidence_sources = <<SrcStr("splunk"), SrcStr("cloud_iam")>>],
    [cc6_1_doc EXCEPT !.evidence_sources = <<SrcStr("splunk")>>],
    [cc6_1_doc EXCEPT !.evidence_sources = <<SrcStr("splunk"), SrcStr("splunk")>>],
    [cc6_1_doc EXCEPT !.severity = "critical"] }

\* a control no evaluator rule exists for; its file may be absent
zz9_9_doc == Doc("ZZ9.9", "Vendor Management", [ vendor_review |-> TRUE ],
                 <<SrcStr("github")>>, "high")
zz9_9_options ==
  { zz9_9_doc,
    [zz9_9_doc EXCEPT !.evidence_sources = <<>>],
    [zz9_9_doc EXCEPT !.evidence_sources = <<SrcDict([name |-> "github"])>>],
    [zz9_9_doc EXCEPT !.evidence_sources = <<[ kind |-> "int", value |-> 7 ]>>] }

\* the directory: file name -> document; sorted(glob("*.yml")) is FileOrder
FileOrder == <<"cc6_1.yml", "cc7_2.yml", "cc8_1.yml", "zz9_9.yml">>

InitialYaml ==
  [ f \in {"cc6_1.yml", "cc7_2.yml", "cc8_1.yml"} |->
      IF f = "cc6_1.yml" THEN cc6_1_doc
      ELSE IF f = "cc7_2.yml" THEN cc7_2_doc ELSE cc8_1_doc ]

\* ------------------------------------------------------ controls/loader.py
SeverityValues == {"low", "medium", "high"}

\* str.lower() on the severity strings the documents use
lower(str) ==
  CASE str = "LOW" -> "low"
    [] str = "HIGH" -> "high"
    [] str = "MEDIUM" -> "medium"
    [] OTHER -> str

RECURSIVE normalize_sources(_, _, _)
\* [ok, value]: ok = FALSE is the ValueError
normalize_sources(evidence_sources, i, acc) ==
  IF i > Len(evidence_sources) THEN [ ok |-> TRUE, value |-> acc ]
  ELSE LET src == evidence_sources[i]
       IN IF src.kind = "dict"
          THEN IF "system" \notin DOMAIN src.value
               THEN [ ok |-> FALSE, value |-> <<>> ]
               ELSE normalize_sources(evidence_sources, i + 1, Append(acc, src.value))
          ELSE IF src.kind = "str"
          THEN normalize_sources(evidence_sources, i + 1,
                                 Append(acc, [ system |-> src.value ]))
          ELSE [ ok |-> FALSE, value |-> <<>> ]

\* [ok, value]: ok = FALSE is the exception _normalize_control raises
_normalize_control(data) ==
  LET evidence_sources == Get(data, "evidence_sources", <<>>)
      severity_str == lower(data.severity)
      check_frequency == Get(data, "check_frequency", "daily")
      normalized_sources == normalize_sources(evidence_sources, 1, <<>>)
  IN IF severity_str \notin SeverityValues THEN [ ok |-> FALSE, value |-> EmptyDict ]
     ELSE IF ~normalized_sources.ok THEN [ ok |-> FALSE, value |-> EmptyDict ]
     ELSE [ ok |-> TRUE,
            value |->
              [ control_id |-> data.control_id,
                name |-> data.name,
                risk |-> data.risk,
                expected_state |-> data.expected_state,
                evidence_sources |-> normalized_sources.value,
                severity |-> severity_str,
                check_frequency |-> check_frequency ] ]

RECURSIVE load_from_skipping(_, _, _)
\* mutant: a definition that does not normalize is left out
load_from_skipping(dir, i, acc) ==
  IF i > Len(FileOrder) THEN [ ok |-> TRUE, value |-> acc ]
  ELSE IF FileOrder[i] \notin DOMAIN dir THEN load_from_skipping(dir, i + 1, acc)
  ELSE LET n == _normalize_control(dir[FileOrder[i]])
       IN IF ~n.ok THEN load_from_skipping(dir, i + 1, acc)
          ELSE load_from_skipping(dir, i + 1, Append(acc, n.value))

RECURSIVE load_from(_, _, _)
load_from(dir, i, acc) ==
  IF i > Len(FileOrder) THEN [ ok |-> TRUE, value |-> acc ]
  ELSE IF FileOrder[i] \notin DOMAIN dir THEN load_from(dir, i + 1, acc)
  ELSE LET n == _normalize_control(dir[FileOrder[i]])
       IN IF ~n.ok THEN [ ok |-> FALSE, value |-> <<>> ]
          ELSE load_from(dir, i + 1, Append(acc, n.value))

\* [ok, value]: the list of normalized control dicts, or the first exception
load_controls_from_yaml(controls_dir) == load_from(controls_dir, 1, <<>>)

\* index of the Control row with this control_id, 0 when there is none
FindControl(table, control_id) ==
  IF \E i \in 1..Len(table) : table[i].control_id = control_id
  THEN CHOOSE i \in 1..Len(table) : table[i].control_id = control_id
  ELSE 0

\* mutant: the lookup by control_id is missing, every definition is inserted
upsert_one_always_insert(table, ctrl_dict, new_id) ==
  Append(table, [ k \in DOMAIN ctrl_dict \cup {"id"} |->
                    IF k = "id" THEN new_id ELSE ctrl_dict[k] ])

\* mutant: an update leaves the row's severity as it was
upsert_one_keeping_severity(table, ctrl_dict, new_id) ==
  LET i == FindControl(table, ctrl_dict.control_id)
  IN IF i # 0
     THEN [table EXCEPT ![i] =
             [ k \in DOMAIN @ |->
                 IF k \in DOMAIN ctrl_dict /\ k \notin {"control_id", "severity"}
                 THEN ctrl_dict[k] ELSE @[k] ]]
     ELSE Append(table, [ k \in DOMAIN ctrl_dict \cup {"id"} |->
                            IF k = "id" THEN new_id ELSE ctrl_dict[k] ])

\* one iteration of upsert_controls' loop on the controls table
upsert_one(table, ctrl_dict, new_id) ==
  LET i == FindControl(table, ctrl_dict.control_id)
  IN IF i # 0
     THEN [table EXCEPT ![i] =
             [ k \in DOMAIN @ |->
                 IF k \in DOMAIN ctrl_dict /\ k # "control_id" THEN ctrl_dict[k] ELSE @[k] ]]
     ELSE Append(table, [ k \in DOMAIN ctrl_dict \cup {"id"} |->
                            IF k = "id" THEN new_id ELSE ctrl_dict[k] ])

RECURSIVE upsert_from(_, _, _, _)
upsert_from(table, control_dicts, i, next_id) ==
  IF i > Len(control_dicts) THEN table
  ELSE upsert_from(upsert_one(table, control_dicts[i], next_id),
                   control_dicts, i + 1, next_id + 1)

\* mutant: rows whose definition is gone from the directory are deleted
upsert_controls_pruning(table, control_dicts, next_id) ==
  LET Defined(row) ==
        \E n \in 1..Len(control_dicts) : control_dicts[n].control_id = row.control_id
  IN SelectSeq(upsert_from(table, control_dicts, 1, next_id), Defined)

\* the table after upsert_controls' loop and commit
upsert_controls(table, control_dicts, next_id) ==
  upsert_from(table, control_dicts, 1, next_id)

\* the list upsert_controls returns: the Control object of every document
returned_controls(table, control_dicts) ==
  [ i \in 1..Len(control_dicts) |-> table[FindControl(table, control_dicts[i].control_id)] ]

\* ------------------------------------------------------------------- state
VARIABLES
  yaml,            \* the controls directory: file name -> YAML document
  simulate_drift,  \* the process environment: SIMULATE_DRIFT = "1"
  controls,        \* committed rows of table controls, in insertion order
  evidence,        \* committed rows of table evidence
  evaluations,     \* committed rows of table evaluations
  alerts,          \* committed rows of table alerts
  sess,            \* per database session: the run_checks_service invocation using it
  runs,            \* invocations started so far
  edits,           \* edits of the controls directory so far
  last_run_at,     \* the greatest run_at of any invocation so far (0: none)
  probe            \* a direct call of evaluate_control: its arguments and result

vars == << yaml, simulate_drift, controls, evidence, evaluations, alerts,
           sess, runs, edits, last_run_at, probe >>

\* no direct call of evaluate_control is in progress
NoProbe == [ control |-> EmptyDict, evidence_by_source |-> EmptyDict, verdict |-> <<>> ]

NoSummary == EmptyDict

\* a session no invocation has used yet
IdleSession ==
  [ pc |-> "idle", run_at |-> 0, controls |-> <<>>, idx |-> 0,
    evidence |-> <<>>, evaluations |-> <<>>, alerts |-> <<>>,
    summary |-> NoSummary, error |-> "",
    before |-> [ controls |-> <<>>, evidence |-> <<>>, evaluations |-> <<>>,
                 alerts |-> <<>> ] ]

Init ==
  /\ yaml = InitialYaml
  /\ simulate_drift = FALSE
  /\ controls = <<>>
  /\ evidence = <<>>
  /\ evaluations = <<>>
  /\ alerts = <<>>
  /\ sess = [ s \in Sessions |-> IdleSession ]
  /\ runs = 0
  /\ edits = 0
  /\ last_run_at = 0
  /\ probe = NoProbe

\* ---------------------------------------------------- db/models.py constraints
\* uq_evidence_snapshot
evidence_key(row) == << row.control_id, row.source_system, row.collected_at >>

\* uq_evaluation_point_in_time
evaluation_key(row) == << row.control_id, row.evaluated_at >>

\* mutants: the unique index is missing
evidence_insert_unchecked(rows, row) == TRUE

evaluation_insert_unchecked(rows, row) == TRUE

\* INSERT of row into a table whose rows are rows: the unique index admits it.
\* A clash with a committed row or one of the session's own is an IntegrityError;
\* a clash with a row another transaction has not committed yet makes the INSERT
\* wait for that transaction to end.
evidence_insert_ok(rows, row) ==
  \A i \in 1..Len(rows) : evidence_key(rows[i]) # evidence_key(row)

evaluation_insert_ok(rows, row) ==
  \A i \in 1..Len(rows) : evaluation_key(rows[i]) # evaluation_key(row)

\* ------------------------------------------------------ scripts/run_checks.py
initial_summary(run_at) ==
  [ run_at |-> isoformat(run_at),
    controls_processed |-> 0,
    controls_passed |-> 0,
    controls_failed |-> 0,
    evidence_collected |-> 0,
    evaluations_created |-> 0,
    alerts_created |-> 0,
    failed_controls |-> <<>> ]

RECURSIVE collect_sources_first_only(_, _, _, _, _, _, _)
\* mutant: only the first source's snapshot is handed to the evaluator
collect_sources_first_only(control, run_at, drift, visible, locked, i, acc) ==
  IF i > Len(control.evidence_sources) \/ acc.outcome # "ok" THEN acc
  ELSE LET source_system == control.evidence_sources[i].system
           evidence_data ==
             _collect_evidence_for_source(control.control_id, source_system, run_at, drift)
           evidence_row ==
             [ id |-> acc.next_id,
               control_id |-> control.control_id,
               source_system |-> source_system,
               collected_at |-> run_at,
               raw_snapshot |-> evidence_data.raw_snapshot ]
       IN IF ~evidence_insert_ok(visible \o acc.evidence_rows, evidence_row)
          THEN [acc EXCEPT !.outcome = "IntegrityError"]
          ELSE IF ~evidence_insert_ok(locked, evidence_row)
          THEN [acc EXCEPT !.outcome = "blocked"]
          ELSE collect_sources_first_only(control, run_at, drift, visible, locked, i + 1,
                 [ outcome |-> "ok",
                   evidence_rows |-> Append(acc.evidence_rows, evidence_row),
                   evidence_by_source |->
                     IF i = 1 THEN (source_system :> evidence_data)
                     ELSE acc.evidence_by_source,
                   next_id |-> acc.next_id + 1 ])

RECURSIVE collect_sources(_, _, _, _, _, _, _)
\* The loop over control.evidence_sources.  visible: the committed rows and the
\* session's own; locked: rows other sessions have flushed and not committed.
\* acc.outcome: "ok", "IntegrityError" (db.flush() raised) or "blocked".
collect_sources(control, run_at, drift, visible, locked, i, acc) ==
  IF i > Len(control.evidence_sources) \/ acc.outcome # "ok" THEN acc
  ELSE LET source_system == control.evidence_sources[i].system
           evidence_data ==
             _collect_evidence_for_source(control.control_id, source_system, run_at, drift)
           evidence_row ==
             [ id |-> acc.next_id,
               control_id |-> control.control_id,
               source_system |-> source_system,
               collected_at |-> run_at,
               raw_snapshot |-> evidence_data.raw_snapshot ]
       IN IF ~evidence_insert_ok(visible \o acc.evidence_rows, evidence_row)
          THEN [acc EXCEPT !.outcome = "IntegrityError"]
          ELSE IF ~evidence_insert_ok(locked, evidence_row)
          THEN [acc EXCEPT !.outcome = "blocked"]
          ELSE collect_sources(control, run_at, drift, visible, locked, i + 1,
                 [ outcome |-> "ok",
                   evidence_rows |-> Append(acc.evidence_rows, evidence_row),
                   evidence_by_source |->
                     (source_system :> evidence_data) @@ acc.evidence_by_source,
                   next_id |-> acc.next_id + 1 ])

\* mutant: the query has no WHERE clause: the latest Evaluation of any control
prev_eval_query_any_control(rows, control_id) ==
  IF rows = <<>> THEN <<>>
  ELSE << rows[CHOOSE i \in 1..Len(rows) :
                 \A j \in 1..Len(rows) : rows[j].evaluated_at <= rows[i].evaluated_at] >>

\* select(Evaluation).where(control_id == ...).order_by(desc(evaluated_at)).limit(1):
\* a sequence of no row (None) or one
prev_eval_query(rows, control_id) ==
  LET mine == { i \in 1..Len(rows) : rows[i].control_id = control_id }
  IN IF mine = {} THEN <<>>
     ELSE << rows[CHOOSE i \in mine :
                    \A j \in mine : rows[j].evaluated_at <= rows[i].evaluated_at] >>

\* mutant: no row is taken as the reference, so the iteration always skips
primary_evidence_id_none(evidence_rows) == <<>>

\* mutant: the last collected row is taken as the reference
primary_evidence_id_last(evidence_rows) ==
  IF evidence_rows # <<>> THEN << evidence_rows[Len(evidence_rows)].id >> ELSE <<>>

\* evidence_rows[0].id if evidence_rows else None, as a sequence of no or one id
primary_evidence_id(evidence_rows) ==
  IF evidence_rows # <<>> THEN << evidence_rows[1].id >> ELSE <<>>

\* mutant: any FAIL counts as drift, whatever came before
drifted_any_fail(prev_eval, eval_result) == eval_result.status = "FAIL"

drifted(prev_eval, eval_result) ==
  /\ prev_eval # <<>>
  /\ prev_eval[1].status = "PASS"
  /\ eval_result.status = "FAIL"

\* mutant: the severity tested is the one recorded on the prior Evaluation
should_alert_prior_severity(prev_eval, eval_result) ==
  drifted(prev_eval, eval_result) /\ prev_eval[1].severity = "high"

\* mutant: the severity test is dropped
should_alert_any_severity(prev_eval, eval_result) == drifted(prev_eval, eval_result)

should_alert(prev_eval, eval_result) ==
  eval_result.severity = "high" /\ drifted(prev_eval, eval_result)

\* mutant: the message gives the identifier only
alert_message_id_only(control) ==
  "Control " \o control.control_id \o " failed after previously passing"

alert_message(control) ==
  "Control " \o control.control_id \o " (" \o control.name
  \o ") failed after previously passing"

\* mutant: a FAIL is counted and not listed
track_pass_fail_unlisted(summary, control, eval_result) ==
  IF eval_result.status = "PASS"
  THEN [summary EXCEPT !.controls_passed = @ + 1]
  ELSE [summary EXCEPT !.controls_failed = @ + 1]

track_pass_fail(summary, control, eval_result) ==
  IF eval_result.status = "PASS"
  THEN [summary EXCEPT !.controls_passed = @ + 1]
  ELSE [summary EXCEPT
          !.controls_failed = @ + 1,
          !.failed_controls =
            Append(@, [ control_id |-> control.control_id,
                        name |-> control.name,
                        severity |-> eval_result.severity,
                        remediation |-> eval_result.remediation ])]

\* One iteration of "for control in controls" in session record se: outcome
\* "ok" with the session record after it, "IntegrityError" when a flush raised,
\* "blocked" while an INSERT waits for another transaction.  store: the
\* committed evidence and evaluations; locked: the rows other sessions have
\* flushed; id0: uuid_str()'s next value.
process_control(se, control, drift, store, locked, id0) ==
  LET run_at == se.run_at
      col == collect_sources(control, run_at, drift,
                             store.evidence \o se.evidence, locked.evidence, 1,
                             [ outcome |-> "ok", evidence_rows |-> <<>>,
                               evidence_by_source |-> EmptyDict, next_id |-> id0 ])
      eval_result == evaluate_control(control, col.evidence_by_source)
      prev_eval == prev_eval_query(store.evaluations \o se.evaluations,
                                   control.control_id)
      primary == primary_evidence_id(col.evidence_rows)
      summary1 == [se.summary EXCEPT
                     !.controls_processed = @ + 1,
                     !.evidence_collected = @ + Len(col.evidence_rows)]
      se1 == [se EXCEPT !.idx = @ + 1,
                        !.evidence = @ \o col.evidence_rows,
                        !.summary = summary1]
      evaluation ==
        [ id |-> col.next_id,
          control_id |-> control.control_id,
          evidence_id |-> primary[1],
          evaluated_at |-> run_at,
          status |-> eval_result.status,
          severity |-> eval_result.severity,
          remediation |-> eval_result.remediation,
          details |-> eval_result.details ]
      \* run_at is no column: it records the invocation that added the row
      \* (created_at is the wall clock at the INSERT)
      alert ==
        [ id |-> col.next_id + 1,
          control_id |-> control.control_id,
          severity |-> eval_result.severity,
          message |-> alert_message(control),
          remediation |-> eval_result.remediation,
          acknowledged |-> FALSE,
          run_at |-> run_at ]
      summary2 == track_pass_fail([summary1 EXCEPT !.evaluations_created = @ + 1],
                                  control, eval_result)
  IN IF col.outcome # "ok" THEN [ outcome |-> col.outcome, se |-> se ]
     ELSE IF primary = <<>>
     THEN [ outcome |-> "ok", se |-> se1 ]
     ELSE IF ~evaluation_insert_ok(store.evaluations \o se.evaluations, evaluation)
     THEN [ outcome |-> "IntegrityError", se |-> se ]
     ELSE IF ~evaluation_insert_ok(locked.evaluations, evaluation)
     THEN [ outcome |-> "blocked", se |-> se ]
     ELSE IF should_alert(prev_eval, eval_result)
     THEN [ outcome |-> "ok",
            se |-> [se1 EXCEPT !.evaluations = Append(@, evaluation),
                               !.alerts = Append(@, alert),
                               !.summary = [summary2 EXCEPT !.alerts_created = @ + 1]] ]
     ELSE [ outcome |-> "ok",
            se |-> [se1 EXCEPT !.evaluations = Append(@, evaluation),
                               !.summary = summary2] ]

\* the exception leaves run_checks_service; closing the session rolls back
raised(se, error) ==
  [se EXCEPT !.pc = "raised", !.error = error, !.controls = <<>>, !.idx = 0,
             !.evidence = <<>>, !.evaluations = <<>>, !.alerts = <<>>,
             !.summary = NoSummary]

\* ----------------------------------------------------------------- actions
Running(s) == sess[s].pc = "running"

RowIds(rows) == { rows[i].id : i \in 1..Len(rows) }

\* uuid_str(): a value no row has, committed or pending in any session
next_id ==
  LET used == RowIds(controls) \cup RowIds(evidence) \cup RowIds(evaluations)
              \cup RowIds(alerts)
              \cup UNION { RowIds(sess[s].evidence) \cup RowIds(sess[s].evaluations)
                           \cup RowIds(sess[s].alerts) : s \in Sessions }
  IN IF used = {} THEN 1 ELSE 1 + CHOOSE m \in used : \A u \in used : u <= m

\* An operator edits one file of the controls directory.
EditYaml ==
  /\ edits < MaxEdits
  /\ \/ \E d \in cc6_1_options : yaml' = ("cc6_1.yml" :> d) @@ yaml
     \/ \E d \in zz9_9_options : yaml' = ("zz9_9.yml" :> d) @@ yaml
     \/ /\ "zz9_9.yml" \in DOMAIN yaml
        /\ yaml' = [ f \in DOMAIN yaml \ {"zz9_9.yml"} |-> yaml[f] ]
  /\ yaml' # yaml
  /\ edits' = edits + 1
  /\ UNCHANGED << simulate_drift, controls, evidence, evaluations, alerts,
                  sess, runs, last_run_at, probe >>

\* The same edit while no invocation is in progress.  When invocations are
\* serialized an edit during a run is read by the next run only, as this one is.
QuietEdit ==
  /\ \A s \in Sessions : ~Running(s)
  /\ EditYaml

\* The process is restarted with SIMULATE_DRIFT set the other way.
SetDrift ==
  /\ \A s \in Sessions : ~Running(s)
  /\ simulate_drift' = ~simulate_drift
  /\ UNCHANGED << yaml, controls, evidence, evaluations, alerts,
                  sess, runs, edits, last_run_at, probe >>

\* run_checks_service(db, run_at) up to the loop: upsert_controls (which commits)
\* and the empty summary.
StartRun(s, run_at) ==
  /\ ~Running(s)
  /\ runs' = runs + 1
  /\ last_run_at' = IF run_at > last_run_at THEN run_at ELSE last_run_at
  /\ LET loaded == load_controls_from_yaml(yaml)
         before == [ controls |-> controls, evidence |-> evidence,
                     evaluations |-> evaluations, alerts |-> alerts ]
     IN IF ~loaded.ok
        THEN /\ sess' = [sess EXCEPT ![s] =
                           raised([IdleSession EXCEPT !.run_at = run_at,
                                                      !.before = before],
                                  "ValueError")]
             /\ UNCHANGED controls
        ELSE /\ controls' = upsert_controls(controls, loaded.value, next_id)
             /\ sess' = [sess EXCEPT ![s] =
                           [ pc |-> "running", run_at |-> run_at,
                             controls |-> returned_controls(controls', loaded.value),
                             idx |-> 1,
                             evidence |-> <<>>, evaluations |-> <<>>, alerts |-> <<>>,
                             summary |-> initial_summary(run_at), error |-> "",
                             before |-> before ]]
  /\ UNCHANGED << yaml, simulate_drift, evidence, evaluations, alerts, edits, probe >>

\* what the sessions other than s have flushed and not committed
locked_by_others(s) ==
  LET others == { o \in Sessions \ {s} : Running(o) }
      RECURSIVE cat(_, _)
      cat(S, field) ==
        IF S = {} THEN <<>>
        ELSE LET o == CHOOSE o \in S : TRUE
             IN sess[o][field] \o cat(S \ {o}, field)
  IN [ evidence |-> cat(others, "evidence"), evaluations |-> cat(others, "evaluations") ]

\* mutant: a FAIL verdict is raised as an exception
ProcessControl_raising_on_fail(s) ==
  /\ Running(s)
  /\ sess[s].idx <= Len(sess[s].controls)
  /\ LET r == process_control(sess[s], sess[s].controls[sess[s].idx], simulate_drift,
                              [ evidence |-> evidence, evaluations |-> evaluations ],
                              locked_by_others(s), next_id)
     IN /\ r.outcome # "blocked"
        /\ sess' = [sess EXCEPT ![s] =
                      IF r.outcome # "ok" THEN raised(sess[s], r.outcome)
                      ELSE IF r.se.summary.controls_failed > sess[s].summary.controls_failed
                      THEN raised(sess[s], "ControlFailed")
                      ELSE r.se]
  /\ UNCHANGED << yaml, simulate_drift, controls, evidence, evaluations, alerts,
                  runs, edits, last_run_at, probe >>

\* mutant: a flush that hits a taken unique key is swallowed and the loop goes on
ProcessControl_skipping_clash(s) ==
  /\ Running(s)
  /\ sess[s].idx <= Len(sess[s].controls)
  /\ LET r == process_control(sess[s], sess[s].controls[sess[s].idx], simulate_drift,
                              [ evidence |-> evidence, evaluations |-> evaluations ],
                              locked_by_others(s), next_id)
     IN /\ r.outcome # "blocked"
        /\ sess' = [sess EXCEPT ![s] =
                      IF r.outcome = "ok" THEN r.se ELSE [sess[s] EXCEPT !.idx = @ + 1]]
  /\ UNCHANGED << yaml, simulate_drift, controls, evidence, evaluations, alerts,
                  runs, edits, last_run_at, probe >>

\* One iteration of the loop over controls.
ProcessControl(s) ==
  /\ Running(s)
  /\ sess[s].idx <= Len(sess[s].controls)
  /\ LET r == process_control(sess[s], sess[s].controls[sess[s].idx], simulate_drift,
                              [ evidence |-> evidence, evaluations |-> evaluations ],
                              locked_by_others(s), next_id)
     IN /\ r.outcome # "blocked"
        /\ sess' = [sess EXCEPT ![s] =
                      IF r.outcome = "ok" THEN r.se ELSE raised(sess[s], r.outcome)]
  /\ UNCHANGED << yaml, simulate_drift, controls, evidence, evaluations, alerts,
                  runs, edits, last_run_at, probe >>

\* mutant: the commit replaces the table by the transaction's rows
committed_rows_replacing(table, pending) == pending

\* the table after the transaction's INSERTs are committed
committed_rows(table, pending) == table \o pending

\* db.commit() and return summary, after the loop.  The unique indexes were
\* checked at each flush and no other transaction can have added a clashing
\* row since, so the commit succeeds.
Commit(s) ==
  /\ Running(s)
  /\ sess[s].idx > Len(sess[s].controls)
  /\ evidence' = committed_rows(evidence, sess[s].evidence)
  /\ evaluations' = committed_rows(evaluations, sess[s].evaluations)
  /\ alerts' = committed_rows(alerts, sess[s].alerts)
  /\ sess' = [sess EXCEPT ![s].pc = "returned", ![s].evidence = <<>>,
                          ![s].evaluations = <<>>, ![s].alerts = <<>>]
  /\ UNCHANGED << yaml, simulate_drift, controls, runs, edits, last_run_at, probe >>

\* A store call raises for a reason of the store's own (the connection is lost).
StoreFailure(s) ==
  /\ Running(s)
  /\ sess' = [sess EXCEPT ![s] = raised(sess[s], "OperationalError")]
  /\ UNCHANGED << yaml, simulate_drift, controls, evidence, evaluations, alerts,
                  runs, edits, last_run_at, probe >>

\* The collector called for a source of the current control raises (the source
\* system is unreachable).  Nothing between the call and the caller of
\* run_checks_service catches it.
CollectorFailure(s) ==
  /\ Running(s)
  /\ sess[s].idx <= Len(sess[s].controls)
  /\ \E i \in 1..Len(sess[s].controls[sess[s].idx].evidence_sources) :
       sess[s].controls[sess[s].idx].evidence_sources[i].system \in KnownSources
  /\ sess' = [sess EXCEPT ![s] = raised(sess[s], "FetchError")]
  /\ UNCHANGED << yaml, simulate_drift, controls, evidence, evaluations, alerts,
                  runs, edits, last_run_at, probe >>

\* -------------------------------------------------------------- specifications
Quiet == \A s \in Sessions : ~Running(s)

\* Invocations are serialized (one session) and carry any timestamp.  Edits and
\* restarts after the last invocation of a behaviour are read by nothing.
Next ==
  \/ runs < MaxRuns /\ QuietEdit
  \/ runs < MaxRuns /\ SetDrift
  \/ \E t \in Times : Quiet /\ runs < MaxRuns /\ StartRun(1, t)
  \/ ProcessControl(1)
  \/ Commit(1)
  \/ StoreFailure(1)

Spec == Init /\ [][Next]_vars

\* The same, with the loop and the commit of an invocation going on: a
\* sequential Python function that is running takes its next step.  This is
\* weak fairness of ProcessControl(1) \/ Commit(1) with its ENABLED written
\* out: with one session no INSERT waits, so one of the two can happen, and
\* changes sess, exactly while the invocation is running.
LoopFairness ==
  \/ []<>(~Running(1))
  \/ []<><<ProcessControl(1) \/ Commit(1)>>_vars

SpecLive == Init /\ [][Next]_vars /\ LoopFairness

\* Invocations are serialized and their timestamps strictly increase.
NextMono ==
  \/ runs < MaxMonoRuns /\ QuietEdit
  \/ runs < MaxMonoRuns /\ SetDrift
  \/ \E t \in MonoTimes :
       Quiet /\ runs < MaxMonoRuns /\ t > last_run_at /\ StartRun(1, t)
  \/ ProcessControl(1)
  \/ Commit(1)
  \/ StoreFailure(1)

SpecMono == Init /\ [][NextMono]_vars

\* Serialized invocations whose collectors reach real source systems and may fail.
NextFetch ==
  \/ runs < MaxRuns /\ QuietEdit
  \/ runs < MaxRuns /\ SetDrift
  \/ \E t \in Times : Quiet /\ runs < MaxRuns /\ StartRun(1, t)
  \/ ProcessControl(1)
  \/ Commit(1)
  \/ StoreFailure(1)
  \/ CollectorFailure(1)

SpecFetch == Init /\ [][NextFetch]_vars

\* The same serialized invocations over a directory that starts with a fourth
\* definition, which an edit may take away again.
InitRetire ==
  /\ yaml = ("zz9_9.yml" :> zz9_9_doc) @@ InitialYaml
  /\ simulate_drift = FALSE
  /\ controls = <<>>
  /\ evidence = <<>>
  /\ evaluations = <<>>
  /\ alerts = <<>>
  /\ sess = [ s \in Sessions |-> IdleSession ]
  /\ runs = 0
  /\ edits = 0
  /\ last_run_at = 0
  /\ probe = NoProbe

SpecRetire == InitRetire /\ [][Next]_vars

\* The same serialized invocations over a directory in which CC6.1 starts as
\* a high or as a medium control, which an edit may then redefine.
InitRedefine ==
  /\ yaml \in { InitialYaml,
                 [InitialYaml EXCEPT !["cc6_1.yml"].severity = "medium"] }
  /\ simulate_drift = FALSE
  /\ controls = <<>>
  /\ evidence = <<>>
  /\ evaluations = <<>>
  /\ alerts = <<>>
  /\ sess = [ s \in Sessions |-> IdleSession ]
  /\ runs = 0
  /\ edits = 0
  /\ last_run_at = 0
  /\ probe = NoProbe

SpecRedefine == InitRedefine /\ [][Next]_vars

RECURSIVE loop_from(_, _, _, _)
\* the whole loop of an invocation that nothing interrupts
loop_from(se, drift, committed_evidence, committed_evaluations) ==
  IF se.idx > Len(se.controls) THEN se
  ELSE LET ids == RowIds(se.controls) \cup RowIds(se.evidence)
                  \cup RowIds(se.evaluations) \cup RowIds(se.alerts)
           r == process_control(se, se.controls[se.idx], drift,
                                [ evidence |-> committed_evidence,
                                  evaluations |-> committed_evaluations ],
                                [ evidence |-> <<>>, evaluations |-> <<>> ],
                                1 + CHOOSE m \in ids : \A u \in ids : u <= m)
       IN loop_from(r.se, drift, committed_evidence, committed_evaluations)

\* the store after one invocation at run_at on an empty store
first_run(dir, run_at, drift) ==
  LET loaded == load_controls_from_yaml(dir)
      table == upsert_controls(<<>>, loaded.value, 1)
      se == loop_from([IdleSession EXCEPT !.pc = "running", !.run_at = run_at,
                                          !.controls = table, !.idx = 1,
                                          !.summary = initial_summary(run_at)],
                      drift, <<>>, <<>>)
  IN [ controls |-> table, evidence |-> se.evidence,
       evaluations |-> se.evaluations, alerts |-> se.alerts ]

\* Two sessions: an invocation may start while another is in progress.  The
\* store is empty or holds one earlier invocation's rows (a passing run at
\* time 1 over the reference controls).
InitOverlap ==
  /\ yaml = InitialYaml
  /\ simulate_drift = FALSE
  /\ \E store \in { first_run(InitialYaml, 1, FALSE),
                     [ controls |-> <<>>, evidence |-> <<>>, evaluations |-> <<>>,
                       alerts |-> <<>> ] } :
       /\ controls = store.controls
       /\ evidence = store.evidence
       /\ evaluations = store.evaluations
       /\ alerts = store.alerts
       /\ last_run_at = IF store.evaluations = <<>> THEN 0 ELSE 1
  /\ sess = [ s \in Sessions |-> IdleSession ]
  /\ runs = 0
  /\ edits = 0
  /\ probe = NoProbe

NextOverlap ==
  \/ runs < MaxOverlapRuns /\ EditYaml
  \/ runs < MaxOverlapRuns /\ SetDrift
  \/ \E t \in Times : runs < MaxOverlapRuns /\ StartRun(1, t)
  \/ \E t \in Times : runs < MaxOverlapRuns /\ Running(1) /\ StartRun(2, t)
  \/ \E s \in Sessions : ProcessControl(s)
  \/ \E s \in Sessions : Commit(s)
  \/ \E s \in Sessions : StoreFailure(s)

SpecOverlap == InitOverlap /\ [][NextOverlap]_vars

\* ------------------------------------------- evaluate_control called directly
\* a dict with or without key k
Opt(k, Vals) == { EmptyDict } \cup { k :> v : v \in Vals }

\* what a collector returns, around a raw_snapshot
EvidenceData(source_system, raw_snapshot) ==
  [ collected_at |-> isoformat(1), source_system |-> source_system,
    raw_snapshot |-> raw_snapshot ]

\* snapshot mappings with or without source_system, over the given snapshots
OptSource(source_system, snapshots) ==
  { EmptyDict } \cup { source_system :> EvidenceData(source_system, snap) : snap \in snapshots }

ProbeControl(control_id, expected_state, severity) ==
  [ control_id |-> control_id, name |-> "control " \o control_id,
    expected_state |-> expected_state, severity |-> severity ]

cc6_1_expected_states ==
  { a @@ b : a \in Opt("mfa_required_for_privileged_users", BOOLEAN),
             b \in Opt("admin_access_restricted", BOOLEAN) }

iam_snapshots ==
  { a @@ b @@ c : a \in Opt("mfa_required_for_privileged_users", BOOLEAN),
                  b \in Opt("admin_access_restricted", BOOLEAN),
                  c \in Opt("admin_users_without_mfa", {0, 2}) }

\* what an unknown source of the control leaves in the mapping
unknown_source_evidence ==
  "splunk" :> _collect_evidence_for_source("", "splunk", 1, FALSE)

cc6_1_probes ==
  { [ control |-> ProbeControl("CC6.1", e, sev), evidence_by_source |-> m ] :
      e \in cc6_1_expected_states, sev \in SeverityValues,
      m \in OptSource("cloud_iam", iam_snapshots) \cup { unknown_source_evidence }
             \cup { "cloud_iam" :> collect_iam_evidence("CC6.1", 1, drift) :
                      drift \in BOOLEAN } }

cc7_2_expected_states ==
  { a @@ b : a \in Opt("centralized_logging_enabled", BOOLEAN),
             b \in Opt("log_retention_days_minimum", {90}) }

logging_snapshots ==
  { a @@ b : a \in Opt("centralized_logging_enabled", BOOLEAN),
             b \in Opt("log_retention_days", {30, 90}) }

cc7_2_probes ==
  { [ control |-> ProbeControl("CC7.2", e, sev), evidence_by_source |-> m ] :
      e \in cc7_2_expected_states, sev \in SeverityValues,
      m \in OptSource("cicd", logging_snapshots) \cup { unknown_source_evidence }
             \cup { "cicd" :> collect_logging_evidence("CC7.2", 1) } }

cc8_1_expected_states ==
  { a @@ b : a \in Opt("pr_reviews_required", BOOLEAN),
             b \in Opt("production_deploy_approvals_required", BOOLEAN) }

branch_protections ==
  { [ main |-> [ required_approving_review_count |-> 2, enforce_admins |-> TRUE ] ],
    [ master |-> [ required_approving_review_count |-> 1, enforce_admins |-> TRUE ] ],
    [ main |-> EmptyDict,
      master |-> [ required_approving_review_count |-> 2, enforce_admins |-> FALSE ] ],
    [ main |-> [ enabled |-> TRUE ] ],
    [ main   |-> [ required_approving_review_count |-> 1, enforce_admins |-> FALSE ],
      master |-> [ required_approving_review_count |-> 2, enforce_admins |-> TRUE ] ],
    EmptyDict }

github_snapshots ==
  { a @@ b @@ c : a \in Opt("pr_reviews_required", BOOLEAN),
                  b \in Opt("production_deploy_approvals_required", BOOLEAN),
                  c \in Opt("branch_protection", branch_protections) }

deploy_snapshots == Opt("production_deploy_approvals_required", BOOLEAN)

cc8_1_probes ==
  { [ control |-> ProbeControl("CC8.1", e, sev), evidence_by_source |-> g @@ c ] :
      e \in cc8_1_expected_states, sev \in SeverityValues,
      g \in OptSource("github", github_snapshots) \cup { unknown_source_evidence }
             \cup { "github" :> collect_github_evidence("CC8.1", 1) },
      c \in OptSource("cicd", deploy_snapshots)
             \cup { "cicd" :> collect_logging_evidence("CC8.1", 1) } }

ProbeInputs == cc6_1_probes \cup cc7_2_probes \cup cc8_1_probes

\* evaluate_control(control, evidence_by_source) is called with some arguments
InitEval ==
  /\ yaml = InitialYaml
  /\ simulate_drift = FALSE
  /\ controls = <<>>
  /\ evidence = <<>>
  /\ evaluations = <<>>
  /\ alerts = <<>>
  /\ sess = [ s \in Sessions |-> IdleSession ]
  /\ runs = 0
  /\ edits = 0
  /\ last_run_at = 0
  /\ \E i \in ProbeInputs :
       probe = [ control |-> i.control, evidence_by_source |-> i.evidence_by_source,
                 verdict |-> <<>> ]

\* ... and returns its verdict
EvaluateProbe ==
  /\ probe.control # EmptyDict
  /\ probe.verdict = <<>>
  /\ probe' = [probe EXCEPT
                 !.verdict = << evaluate_control(probe.control, probe.evidence_by_source) >>]
  /\ UNCHANGED << yaml, simulate_drift, controls, evidence, evaluations, alerts,
                  sess, runs, edits, last_run_at >>

NextEval == EvaluateProbe

SpecEval == InitEval /\ [][NextEval]_vars

\* ------------------------------------------------------------------ claims
Rows(table) == { table[i] : i \in 1..Len(table) }

\* the Evaluation of e's control with the greatest timestamp before e's: a
\* sequence of none or one
Preceding(table, e) ==
  LET before == { i \in 1..Len(table) :
                    /\ table[i].control_id = e.control_id
                    /\ table[i].evaluated_at < e.evaluated_at }
  IN IF before = {} THEN <<>>
     ELSE << table[CHOOSE i \in before :
                     \A j \in before : table[j].evaluated_at <= table[i].evaluated_at] >>

\* the Alerts the invocation at run_at added for the control
AlertsOf(table, control_id, run_at) ==
  { i \in 1..Len(table) :
      table[i].control_id = control_id /\ table[i].run_at = run_at }

PassThenFail(table, e) ==
  /\ e.status = "FAIL"
  /\ Preceding(table, e) # <<>>
  /\ Preceding(table, e)[1].status = "PASS"

\* C1: serialized runs with strictly increasing timestamps: the run that wrote a
\* high-severity Evaluation added an Alert for the control if and only if that
\* Evaluation is FAIL and the control's preceding Evaluation is PASS, and then
\* exactly one; no Alert belongs to any other run.
C1_EdgeTriggered ==
  /\ \A e \in Rows(evaluations) :
       e.severity = "high" =>
         Cardinality(AlertsOf(alerts, e.control_id, e.evaluated_at))
           = IF PassThenFail(evaluations, e) THEN 1 ELSE 0
  /\ \A a \in Rows(alerts) :
       \E e \in Rows(evaluations) :
         e.control_id = a.control_id /\ e.evaluated_at = a.run_at /\ e.severity = "high"

\* the statuses of a control's Evaluations in timestamp order
RECURSIVE StatusesFrom(_, _, _)
StatusesFrom(table, control_id, t) ==
  IF t > MaxMonoRuns + MaxTime THEN <<>>
  ELSE (IF \E e \in Rows(table) : e.control_id = control_id /\ e.evaluated_at = t
          THEN << (CHOOSE e \in Rows(table) :
                     e.control_id = control_id /\ e.evaluated_at = t).status >>
          ELSE <<>>)
       \o StatusesFrom(table, control_id, t + 1)

\* C1 witness: FAIL, FAIL, PASS, FAIL of the high-severity CC6.1 with exactly
\* one Alert, added by the last run
C1_Witness ==
  /\ StatusesFrom(evaluations, "CC6.1", 1) = << "FAIL", "FAIL", "PASS", "FAIL" >>
  /\ \A e \in Rows(evaluations) : e.control_id = "CC6.1" => e.severity = "high"
  /\ Cardinality({ i \in 1..Len(alerts) : alerts[i].control_id = "CC6.1" }) = 1
  /\ \E a \in Rows(alerts) : a.control_id = "CC6.1" /\ a.run_at = last_run_at

\* C2: every Alert was added by a run that wrote a FAIL Evaluation of high
\* severity for the control, whose immediately preceding Evaluation (the
\* greatest timestamp before that run's) is PASS.
C2_AlertOnlyAfterPass ==
  \A a \in Rows(alerts) :
    \E e \in Rows(evaluations) :
      /\ e.control_id = a.control_id
      /\ e.evaluated_at = a.run_at
      /\ e.severity = "high"
      /\ PassThenFail(evaluations, e)

\* the control iteration s is about to run, when it is about to run one
AtControl(s) == Running(s) /\ sess[s].idx <= Len(sess[s].controls)
CurrentControl(s) == sess[s].controls[sess[s].idx]

\* C3: an iteration over a control whose severity is not high adds no Alert and
\* leaves alerts_created as it was, whatever the control's history; every Alert
\* row, flushed or committed, has severity high.
C3_NoAlertNonHigh ==
  /\ [][\A s \in Sessions :
          (AtControl(s) /\ CurrentControl(s).severity # "high" /\ sess'[s].pc = "running")
            => /\ sess'[s].alerts = sess[s].alerts
               /\ sess'[s].summary.alerts_created = sess[s].summary.alerts_created]_vars
  /\ [](\A a \in Rows(alerts) : a.severity = "high")

\* C3 witness: a medium or low control went PASS then FAIL in two committed runs
\* and has no Alert
C3_Witness ==
  /\ \E e \in Rows(evaluations) :
       /\ e.severity \in {"medium", "low"}
       /\ PassThenFail(evaluations, e)
       /\ Preceding(evaluations, e)[1].severity \in {"medium", "low"}
       /\ e.control_id = "CC6.1"
  /\ \A a \in Rows(alerts) : a.control_id # "CC6.1"

\* C4: when an invocation has raised, nothing it wrote is committed: the four
\* tables are as they were when it began.
C4_AbortLeavesNothing ==
  \A s \in Sessions :
    sess[s].pc = "raised" =>
      /\ controls = sess[s].before.controls
      /\ evidence = sess[s].before.evidence
      /\ evaluations = sess[s].before.evaluations
      /\ alerts = sess[s].before.alerts

\* the rows of a table that exist in the database: committed, or flushed by a
\* transaction still open
AllRows(table, field) ==
  LET RECURSIVE cat(_)
      cat(S) == IF S = {} THEN <<>>
                ELSE LET o == CHOOSE o \in S : TRUE
                     IN sess[o][field] \o cat(S \ {o})
  IN table \o cat(Sessions)

\* C5: no two Evaluation rows, committed or flushed, have the same
\* (control_id, evaluated_at), also when runs with one timestamp repeat or overlap.
C5_EvaluationUnique ==
  LET rows == AllRows(evaluations, "evaluations")
  IN \A i, j \in 1..Len(rows) :
       evaluation_key(rows[i]) = evaluation_key(rows[j]) => i = j

\* C5 witness: session 2 began while session 1 was running, with the same
\* timestamp; session 1 committed its Evaluations and session 2 got the
\* IntegrityError
C5_Witness ==
  /\ sess[1].pc = "returned"
  /\ sess[2].pc = "raised"
  /\ sess[2].error = "IntegrityError"
  /\ sess[1].run_at = sess[2].run_at
  /\ \E e \in Rows(evaluations) : e.evaluated_at = sess[1].run_at /\ e.control_id = "CC6.1"

\* C6: no two Evidence rows, committed or flushed, have the same
\* (control_id, source_system, collected_at).
C6_EvidenceUnique ==
  LET rows == AllRows(evidence, "evidence")
  IN \A i, j \in 1..Len(rows) :
       evidence_key(rows[i]) = evidence_key(rows[j]) => i = j

\* C6 witness: the run of a control that declares cloud_iam twice raised the
\* IntegrityError at a timestamp no earlier run had used, and left no row
C6_Witness ==
  /\ sess[1].pc = "raised"
  /\ sess[1].error = "IntegrityError"
  /\ yaml["cc6_1.yml"].evidence_sources = << SrcStr("cloud_iam"), SrcStr("cloud_iam") >>
  /\ \A e \in Rows(evidence) : e.collected_at # sess[1].run_at

IsPrefix(a, b) == Len(a) <= Len(b) /\ SubSeq(b, 1, Len(a)) = a

\* C7: every step (the registry refresh, an iteration, the commit, a rollback)
\* leaves each committed Evidence, Evaluation and Alert row in place and unchanged;
\* the tables only grow.
C7_AppendOnly ==
  [][/\ IsPrefix(evidence, evidence')
     /\ IsPrefix(evaluations, evaluations')
     /\ IsPrefix(alerts, alerts')]_vars

\* C7 witness: a run has committed rows on top of an earlier run's rows and
\* Alerts, which are all still there
C7_Witness ==
  /\ sess[1].pc = "returned"
  /\ sess[1].before.evaluations # <<>>
  /\ sess[1].before.alerts # <<>>
  /\ Len(evaluations) > Len(sess[1].before.evaluations)
  /\ IsPrefix(sess[1].before.evidence, evidence)
  /\ IsPrefix(sess[1].before.alerts, alerts)

EvaluationsAt(control_id, run_at) ==
  { i \in 1..Len(evaluations) :
      evaluations[i].control_id = control_id /\ evaluations[i].evaluated_at = run_at }

\* C8: when a run has returned, every control of it that declares no evidence
\* source has exactly one Evaluation at the run's timestamp, and every processed
\* control is counted as created and as passed or failed.
C8_ZeroSourcesEvaluated ==
  \A s \in Sessions :
    sess[s].pc = "returned" =>
      /\ \A i \in 1..Len(sess[s].controls) :
           sess[s].controls[i].evidence_sources = <<>> =>
             Cardinality(EvaluationsAt(sess[s].controls[i].control_id, sess[s].run_at)) = 1
      /\ sess[s].summary.evaluations_created = sess[s].summary.controls_processed
      /\ sess[s].summary.controls_passed + sess[s].summary.controls_failed
           = sess[s].summary.controls_processed

ReferenceControls == {"CC6.1", "CC7.2", "CC8.1"}

\* C9: when a run has returned, every control of it that no evaluator rule
\* exists for has a FAIL Evaluation at the run's timestamp, marked unknown_control,
\* with the control's severity, and is listed in failed_controls.
C9_UnknownControlFails ==
  \A s \in Sessions :
    sess[s].pc = "returned" =>
      \A i \in 1..Len(sess[s].controls) :
        LET control == sess[s].controls[i]
        IN control.control_id \notin ReferenceControls =>
             /\ \E k \in EvaluationsAt(control.control_id, sess[s].run_at) :
                  /\ evaluations[k].status = "FAIL"
                  /\ evaluations[k].severity = control.severity
                  /\ evaluations[k].details = [ error |-> "unknown_control" ]
             /\ \E k \in 1..Len(sess[s].summary.failed_controls) :
                  sess[s].summary.failed_controls[k].control_id = control.control_id
             /\ sess[s].summary.controls_processed = Len(sess[s].controls)

UnknownSources(control) ==
  { control.evidence_sources[i].system : i \in 1..Len(control.evidence_sources) }
    \ KnownSources

\* the rows session s sees in a table: the committed ones and its own
Visible(table, s, field) == table \o sess[s][field]

C11_FetchErrorRecovered ==
  \A s \in Sessions : ~(sess[s].pc = "raised" /\ sess[s].error = "FetchError")

\* a control definition the loader must reject: an unrecognized severity, an
\* evidence_sources entry that is a mapping without "system", or one that is
\* neither a mapping nor a string
InvalidDefinition(doc) ==
  \/ lower(doc.severity) \notin {"low", "medium", "high"}
  \/ /\ "evidence_sources" \in DOMAIN doc
     /\ \E i \in 1..Len(doc.evidence_sources) :
          \/ /\ doc.evidence_sources[i].kind = "dict"
             /\ "system" \notin DOMAIN doc.evidence_sources[i].value
          \/ doc.evidence_sources[i].kind \notin {"dict", "str"}

\* C12: an invocation that starts while some definition of the directory is
\* invalid raises ValueError to its caller and leaves the Control table as it
\* was, valid definitions included; it adds no Evidence, Evaluation or Alert.
C12_InvalidRefreshWritesNothing ==
  [][\A s \in Sessions :
       ((\E f \in DOMAIN yaml : InvalidDefinition(yaml[f]))
          /\ runs' = runs + 1 /\ sess'[s] # sess[s])
       => /\ sess'[s].pc = "raised"
          /\ sess'[s].error = "ValueError"
          /\ sess'[s].evidence = <<>>
          /\ sess'[s].evaluations = <<>>
          /\ sess'[s].alerts = <<>>
          /\ controls' = controls
          /\ evidence' = evidence
          /\ evaluations' = evaluations
          /\ alerts' = alerts]_vars

\* C12 witness: the first invocation found ZZ9.9's definition invalid after
\* three valid ones, raised, and the store has no Control and no other row
C12_Witness ==
  /\ sess[1].pc = "raised"
  /\ sess[1].error = "ValueError"
  /\ "zz9_9.yml" \in DOMAIN yaml
  /\ InvalidDefinition(yaml["zz9_9.yml"])
  /\ ~InvalidDefinition(yaml["cc6_1.yml"])
  /\ controls = <<>>
  /\ evidence = <<>> /\ evaluations = <<>> /\ alerts = <<>>

DefinitionFields ==
  {"name", "risk", "expected_state", "evidence_sources", "severity", "check_frequency"}

\* the Control rows of the table that carry the definition's identifier
ControlsOf(table, control_id) ==
  { i \in 1..Len(table) : table[i].control_id = control_id }

SameDefinition(row, d) == \A k \in DefinitionFields : row[k] = d[k]

\* C13: after a registry refresh every loaded definition has exactly one Control
\* row with its identifier, whose six fields equal the definition; a refresh whose
\* definitions all equal their rows leaves the table unchanged; the table never
\* holds two rows with one identifier.
C13_IdempotentRefresh ==
  /\ [][(runs' = runs + 1 /\ sess'[1].pc = "running") =>
          LET defs == load_controls_from_yaml(yaml).value
          IN /\ \A n \in 1..Len(defs) :
                  /\ Cardinality(ControlsOf(controls', defs[n].control_id)) = 1
                  /\ \A i \in ControlsOf(controls', defs[n].control_id) :
                       SameDefinition(controls'[i], defs[n])
             /\ (\A n \in 1..Len(defs) :
                   \E i \in ControlsOf(controls, defs[n].control_id) :
                     SameDefinition(controls[i], defs[n]))
                => controls' = controls]_vars
  /\ [](\A i, j \in 1..Len(controls) :
          controls[i].control_id = controls[j].control_id => i = j)

\* C13 witness: a second refresh read an edited definition of CC6.1 and updated
\* the one row the first refresh had created, which keeps its id
C13_Witness ==
  /\ sess[1].pc = "running"
  /\ Len(sess[1].before.controls) = 3
  /\ Len(controls) = 3
  /\ sess[1].before.controls[1].control_id = "CC6.1"
  /\ sess[1].before.controls[1].severity = "high"
  /\ controls[1].control_id = "CC6.1"
  /\ controls[1].severity = "medium"
  /\ controls[1].id = sess[1].before.controls[1].id

\* the rows the invocation of session s has added to a table
AddedBy(s, table, field) ==
  SubSeq(table, Len(sess[s].before[field]) + 1, Len(table))

IsFail(e) == e.status = "FAIL"
IsPass(e) == e.status = "PASS"

\* C14: the summary an invocation returns counts what it wrote: the controls the
\* refresh returned, the Evidence, Evaluation and Alert rows it added, its PASS
\* and its FAIL Evaluations, and failed_controls lists the FAIL Evaluations one by
\* one with control_id, name, severity and remediation.
C14_SummaryMatchesWrites ==
  \A s \in Sessions :
    sess[s].pc = "returned" =>
      LET summary == sess[s].summary
          added == AddedBy(s, evaluations, "evaluations")
          fails == SelectSeq(added, IsFail)
          NameOf(control_id) ==
            sess[s].controls[CHOOSE i \in 1..Len(sess[s].controls) :
                               sess[s].controls[i].control_id = control_id].name
      IN /\ summary.run_at = ToString(sess[s].run_at)
         /\ summary.controls_processed = Len(sess[s].controls)
         /\ summary.evidence_collected = Len(AddedBy(s, evidence, "evidence"))
         /\ summary.evaluations_created = Len(added)
         /\ summary.alerts_created = Len(AddedBy(s, alerts, "alerts"))
         /\ summary.controls_passed = Len(SelectSeq(added, IsPass))
         /\ summary.controls_failed = Len(fails)
         /\ summary.failed_controls =
              [ k \in 1..Len(fails) |->
                  [ control_id |-> fails[k].control_id,
                    name |-> NameOf(fails[k].control_id),
                    severity |-> fails[k].severity,
                    remediation |-> fails[k].remediation ] ]
         /\ \A k \in 1..Len(added) : added[k].evaluated_at = sess[s].run_at

\* C14 witness: a run over three controls in which only the high-severity CC6.1
\* fails, after a prior pass: controls_processed 3, alerts_created 1, one entry
C14_Witness ==
  /\ sess[1].pc = "returned"
  /\ sess[1].summary.controls_processed = 3
  /\ sess[1].summary.alerts_created = 1
  /\ sess[1].summary.controls_passed = 2
  /\ sess[1].summary.controls_failed = 1
  /\ Len(sess[1].summary.failed_controls) = 1
  /\ sess[1].summary.failed_controls[1].control_id = "CC6.1"
  /\ sess[1].summary.failed_controls[1].severity = "high"
  /\ sess[1].summary.failed_controls[1].remediation = cc6_1_remediation
  /\ \E e \in Rows(sess[1].before.evaluations) :
       e.control_id = "CC6.1" /\ e.status = "PASS"

Returned == probe.verdict # <<>>
Verdict == probe.verdict[1]

\* C16: a verdict of a reference control is FAIL exactly when it carries a
\* non-empty issue list and PASS otherwise; a PASS has the remediation
\* "No action required." and no issue list in its details; the verdict's
\* severity is the control's.
C16_VerdictShape ==
  Returned =>
    /\ Verdict.status \in {"PASS", "FAIL"}
    /\ Verdict.severity = probe.control.severity
    /\ Verdict.status = "FAIL"
         <=> ("issues" \in DOMAIN Verdict.details /\ Verdict.details.issues # <<>>)
    /\ Verdict.status = "PASS"
         => /\ Verdict.remediation = "No action required."
            /\ "issues" \notin DOMAIN Verdict.details
    /\ Verdict.status = "FAIL" => Verdict.remediation # "No action required."

\* C16 witness: a medium CC7.2 whose snapshot breaks both rules: FAIL, two issues
C16_Witness ==
  /\ Returned
  /\ probe.control.control_id = "CC7.2"
  /\ probe.control.severity = "medium"
  /\ Verdict.status = "FAIL"
  /\ Len(Verdict.details.issues) = 2

\* the raw_snapshot the CC6.1 rule reads: cloud_iam's, empty when there is none
IamSnapshot ==
  IF "cloud_iam" \in DOMAIN probe.evidence_by_source
  THEN probe.evidence_by_source["cloud_iam"].raw_snapshot
  ELSE EmptyDict

Cc6Flags == {"mfa_required_for_privileged_users", "admin_access_restricted"}

\* C17: CC6.1 is PASS exactly when every flag the expected state requires is
\* true in the cloud_iam snapshot and the snapshot's admin_users_without_mfa is
\* not greater than 0.  With both flags required: a snapshot with MFA not
\* required and 2 admins without MFA is FAIL with the MFA issue and the 3-step
\* remediation; one with both flags true and 0 such admins is PASS with
\* "No action required.".
C17_Cc61Rule ==
  (Returned /\ probe.control.control_id = "CC6.1") =>
    LET expected == probe.control.expected_state
        snap == IamSnapshot
        required == { f \in Cc6Flags : f \in DOMAIN expected /\ expected[f] = TRUE }
        holds(f) == f \in DOMAIN snap /\ snap[f] = TRUE
        none_without_mfa ==
          /\ "admin_users_without_mfa" \in DOMAIN snap
          /\ ~(snap["admin_users_without_mfa"] > 0)
    IN /\ Verdict.status = "PASS" <=> ((\A f \in required : holds(f)) /\ none_without_mfa)
       /\ Verdict.status \in {"PASS", "FAIL"}
       /\ (/\ required = Cc6Flags
           /\ "mfa_required_for_privileged_users" \in DOMAIN snap
           /\ snap["mfa_required_for_privileged_users"] = FALSE
           /\ "admin_users_without_mfa" \in DOMAIN snap
           /\ snap["admin_users_without_mfa"] = 2)
          => /\ Verdict.status = "FAIL"
             /\ \E k \in 1..Len(Verdict.details.issues) :
                  Verdict.details.issues[k] = "MFA not required for privileged users"
             /\ \E k \in 1..Len(Verdict.details.issues) :
                  Verdict.details.issues[k] = "2 admin user(s) without MFA"
             /\ Verdict.remediation =
                  "1. Enable MFA enforcement policy for all privileged roles.\n"
                  \o "2. Review and restrict admin role assignments to minimum necessary users.\n"
                  \o "3. Verify all admin users have MFA devices enrolled."
       /\ (required = Cc6Flags /\ holds("mfa_required_for_privileged_users")
             /\ holds("admin_access_restricted") /\ none_without_mfa)
          => /\ Verdict.status = "PASS"
             /\ Verdict.remediation = "No action required."

\* C17 witness: the collector's drifted snapshot, both flags required: FAIL
C17_Witness ==
  /\ Returned
  /\ probe.control.control_id = "CC6.1"
  /\ probe.control.expected_state = cc6_1_expected
  /\ probe.evidence_by_source = ("cloud_iam" :> collect_iam_evidence("CC6.1", 1, TRUE))
  /\ Verdict.status = "FAIL"
  /\ Verdict.details.issues
       = << "MFA not required for privileged users", "2 admin user(s) without MFA" >>

\* the sources the rule of a reference control reads
ReadBy(control_id) ==
  IF control_id = "CC6.1" THEN {"cloud_iam"}
  ELSE IF control_id = "CC7.2" THEN {"cicd"}
  ELSE {"github", "cicd"}

\* the raw_snapshot of a source in the probe's mapping, empty when it is absent
SnapshotOf(source_system) ==
  IF source_system \in DOMAIN probe.evidence_by_source
  THEN probe.evidence_by_source[source_system].raw_snapshot
  ELSE EmptyDict

\* the probe's mapping with an empty payload for every source the rule reads
\* and the mapping lacks
WithEmptyPayloads ==
  [ src \in DOMAIN probe.evidence_by_source \cup ReadBy(probe.control.control_id) |->
      IF src \in DOMAIN probe.evidence_by_source
      THEN probe.evidence_by_source[src]
      ELSE EvidenceData(src, EmptyDict) ]

\* C18: evaluate_control returns a verdict for every mapping, also an empty
\* one, one without a source the rule reads, and one whose snapshot lacks the
\* keys the rule reads: an absent source gives the verdict of an empty payload,
\* and an absent key is read as its default (flags false, admin_users_without_mfa
\* 999, log_retention_days 0).
C18_MissingEvidenceDefaults ==
  Returned =>
    LET cid == probe.control.control_id
        actual == Verdict.details.actual
        iam == SnapshotOf("cloud_iam")
        cicd == SnapshotOf("cicd")
        github == SnapshotOf("github")
    IN /\ DOMAIN Verdict = {"status", "severity", "remediation", "details"}
       /\ Verdict.status \in {"PASS", "FAIL"}
       /\ Verdict = evaluate_control(probe.control, WithEmptyPayloads)
       /\ cid = "CC6.1" =>
            /\ actual.mfa_required_for_privileged_users
                 = Get(iam, "mfa_required_for_privileged_users", FALSE)
            /\ actual.admin_access_restricted = Get(iam, "admin_access_restricted", FALSE)
            /\ "admin_users_without_mfa" \notin DOMAIN iam =>
                 /\ Verdict.status = "FAIL"
                 /\ actual.admin_users_without_mfa = 999
       /\ cid = "CC7.2" =>
            /\ actual.centralized_logging_enabled
                 = Get(cicd, "centralized_logging_enabled", FALSE)
            /\ actual.log_retention_days = Get(cicd, "log_retention_days", 0)
       /\ (cid = "CC8.1"
             /\ DOMAIN github \cap {"pr_reviews_required", "branch_protection",
                                    "production_deploy_approvals_required"} = {}
             /\ "production_deploy_approvals_required" \notin DOMAIN cicd) =>
            /\ actual.pr_reviews_required = FALSE
            /\ actual.production_deploy_approvals_required = FALSE
            /\ Verdict.status = "FAIL"
                 <=> \E f \in {"pr_reviews_required", "production_deploy_approvals_required"} :
                       Get(probe.control.expected_state, f, FALSE)

\* C18 witness: CC6.1 evaluated on the snapshot of an unknown source only:
\* FAIL with every default in its details
C18_Witness ==
  /\ Returned
  /\ probe.control.control_id = "CC6.1"
  /\ probe.control.expected_state = cc6_1_expected
  /\ probe.evidence_by_source = unknown_source_evidence
  /\ Verdict.status = "FAIL"
  /\ Verdict.details.actual =
       [ mfa_required_for_privileged_users |-> FALSE,
         admin_access_restricted |-> FALSE,
         admin_users_without_mfa |-> 999 ]

StoreErrors == {"IntegrityError", "OperationalError"}

\* C19: an invocation whose refresh succeeded ends: it returns its summary,
\* unless a store write raised.  An iteration ends the invocation only by such
\* a store error, whatever the control's verdict; otherwise the loop goes on to
\* the next control, and the summary returned covers every control.
C19_FailuresAreData ==
  /\ Running(1) ~> \/ sess[1].pc = "returned"
                   \/ sess[1].pc = "raised" /\ sess[1].error \in StoreErrors
  /\ [][(AtControl(1) /\ sess'[1] # sess[1]) =>
          \/ sess'[1].pc = "raised" /\ sess'[1].error \in StoreErrors
          \/ /\ sess'[1].pc = "running"
             /\ sess'[1].idx = sess[1].idx + 1
             /\ sess'[1].summary.controls_processed
                  = sess[1].summary.controls_processed + 1]_vars
  /\ [](sess[1].pc = "returned" =>
          sess[1].summary.controls_processed = Len(sess[1].controls))

\* C19 witness: the first and the last of four controls failed (CC6.1 drifted,
\* ZZ9.9 unknown), the two between them passed, and the run returned
C19_Witness ==
  /\ sess[1].pc = "returned"
  /\ Len(sess[1].controls) = 4
  /\ sess[1].summary.controls_processed = 4
  /\ sess[1].summary.controls_failed = 2
  /\ sess[1].summary.controls_passed = 2
  /\ sess[1].summary.failed_controls[1].control_id = "CC6.1"
  /\ sess[1].summary.failed_controls[2].control_id = "ZZ9.9"

EvidenceOf(ev, e) == { r \in Rows(ev) : r.id = e.evidence_id }

\* C21: every Evaluation, committed or flushed, refers to exactly one Evidence
\* row of the database, which has the Evaluation's control_id and a collected_at
\* equal to its evaluated_at; and the row an iteration's new Evaluation refers to
\* has the first source the control declares.
C21_RepresentativeEvidence ==
  /\ [](\A s \in Sessions :
          \A e \in Rows(Visible(evaluations, s, "evaluations")) :
            LET refs == EvidenceOf(Visible(evidence, s, "evidence"), e)
            IN /\ Cardinality(refs) = 1
               /\ \A r \in refs : /\ r.control_id = e.control_id
                                   /\ r.collected_at = e.evaluated_at)
  /\ [][\A s \in Sessions :
          (AtControl(s) /\ sess'[s].pc = "running")
          => \A k \in (Len(sess[s].evaluations) + 1)..Len(sess'[s].evaluations) :
               \A r \in EvidenceOf(sess'[s].evidence, sess'[s].evaluations[k]) :
                 r.source_system = CurrentControl(s).evidence_sources[1].system]_vars

\* C21 witness: the committed Evaluation of CC8.1 (github, then cicd) refers to
\* the github row of its run, and the cicd row of that run exists beside it
C21_Witness ==
  \E e \in Rows(evaluations) :
    /\ e.control_id = "CC8.1"
    /\ \E r \in Rows(evidence) :
         r.id = e.evidence_id /\ r.source_system = "github"
         /\ r.collected_at = e.evaluated_at
    /\ \E r \in Rows(evidence) :
         r.control_id = "CC8.1" /\ r.source_system = "cicd"
         /\ r.collected_at = e.evaluated_at /\ r.id # e.evidence_id

\* C22: in the committed store, whenever an Evidence row exists for a control
\* and a timestamp, an Evaluation exists for that control and timestamp, also
\* after invocations that a collector or store error ended part-way.
C22_EvidenceHasEvaluation ==
  \A r \in Rows(evidence) :
    \E e \in Rows(evaluations) :
      e.control_id = r.control_id /\ e.evaluated_at = r.collected_at

\* C22 witness: an invocation ended by a collector's error after an earlier one
\* had committed; the store holds the earlier run's Evidence, each with its
\* Evaluation, and no row of the failed run's timestamp
C22_Witness ==
  /\ sess[1].pc = "raised"
  /\ sess[1].error = "FetchError"
  /\ sess[1].before.evidence # <<>>
  /\ evidence = sess[1].before.evidence
  /\ \A r \in Rows(evidence) :
       /\ r.collected_at # sess[1].run_at
       /\ \E e \in Rows(evaluations) :
            e.control_id = r.control_id /\ e.evaluated_at = r.collected_at

\* the snapshot mapping the persisted Evidence rows of an iteration stand for:
\* one entry per source, around the row's raw_snapshot
MappingOf(rows) ==
  [ src \in { rows[k].source_system : k \in 1..Len(rows) } |->
      LET k == CHOOSE k \in 1..Len(rows) : rows[k].source_system = src
      IN [ collected_at |-> isoformat(rows[k].collected_at),
           source_system |-> src,
           raw_snapshot |-> rows[k].raw_snapshot ] ]

\* C23: an iteration that completes has inserted one Evidence row per declared
\* source, in declaration order, keyed (control, source, run_at); the Evaluation
\* it inserts, after those rows, carries the verdict of the evaluator on the
\* mapping of all of them, one entry per declared source; it adds an Alert
\* exactly when the prior Evaluation read before that insert makes a high
\* PASS-to-FAIL regression, and inserts it after the Evaluation.
C23_CollectEvaluateAlertOrder ==
  [][\A s \in Sessions :
       (AtControl(s) /\ sess'[s].pc = "running") =>
         LET control == CurrentControl(s)
             sources == control.evidence_sources
             ev == SubSeq(sess'[s].evidence, Len(sess[s].evidence) + 1,
                          Len(sess'[s].evidence))
             evals == SubSeq(sess'[s].evaluations, Len(sess[s].evaluations) + 1,
                             Len(sess'[s].evaluations))
             al == SubSeq(sess'[s].alerts, Len(sess[s].alerts) + 1, Len(sess'[s].alerts))
             verdict == evaluate_control(control, MappingOf(ev))
             prior == prev_eval_query(Visible(evaluations, s, "evaluations"),
                                      control.control_id)
         IN /\ Len(ev) = Len(sources)
            /\ \A k \in 1..Len(ev) :
                 evidence_key(ev[k]) = << control.control_id, sources[k].system, sess[s].run_at >>
            /\ DOMAIN MappingOf(ev) = { sources[k].system : k \in 1..Len(sources) }
            /\ Len(evals) <= 1 /\ Len(al) <= Len(evals)
            /\ sources # <<>> => Len(evals) = 1
            /\ \A k \in 1..Len(evals) :
                 /\ evals[k].status = verdict.status
                 /\ evals[k].details = verdict.details
                 /\ evals[k].remediation = verdict.remediation
                 /\ \A j \in 1..Len(ev) : ev[j].id < evals[k].id
                 /\ \A j \in 1..Len(al) : evals[k].id < al[j].id
                 /\ Len(al) = 1 <=> (/\ verdict.severity = "high"
                                     /\ verdict.status = "FAIL"
                                     /\ prior # <<>>
                                     /\ prior[1].status = "PASS"
                                     /\ prior[1].id # evals[k].id)]_vars

\* C23 witness: a run over CC6.1 declaring splunk then cloud_iam is past its
\* first iteration: two Evidence rows in that order, then the Evaluation, then
\* the Alert of the regression from an earlier PASS
C23_Witness ==
  /\ Running(1)
  /\ sess[1].idx = 2
  /\ Len(sess[1].evidence) = 2
  /\ sess[1].evidence[1].source_system = "splunk"
  /\ sess[1].evidence[2].source_system = "cloud_iam"
  /\ Len(sess[1].evaluations) = 1
  /\ sess[1].evaluations[1].status = "FAIL"
  /\ sess[1].evaluations[1].details.actual.admin_users_without_mfa = 2
  /\ Len(sess[1].alerts) = 1
  /\ sess[1].evidence[2].id < sess[1].evaluations[1].id
  /\ sess[1].evaluations[1].id < sess[1].alerts[1].id

\* the severity the directory defines for a control: the lower-cased severity
\* of the document that carries its identifier
DefinedSeverity(dir, control_id) ==
  lower(dir[CHOOSE f \in DOMAIN dir : dir[f].control_id = control_id].severity)

\* C24: the controls a refresh hands to its run carry the severity the
\* directory defines at that moment; every Evaluation and Alert an iteration
\* adds carries that severity; and a refresh, whatever it changes in the Control
\* table, leaves every Evaluation and Alert row as it was.
C24_SeveritySnapshot ==
  [][\A s \in Sessions :
       /\ (runs' = runs + 1 /\ sess'[s] # sess[s]) =>
            /\ evaluations' = evaluations
            /\ alerts' = alerts
            /\ \A i \in 1..Len(sess'[s].controls) :
                 sess'[s].controls[i].severity
                   = DefinedSeverity(yaml, sess'[s].controls[i].control_id)
       /\ (AtControl(s) /\ sess'[s].pc = "running") =>
            /\ \A k \in (Len(sess[s].evaluations) + 1)..Len(sess'[s].evaluations) :
                 sess'[s].evaluations[k].severity = CurrentControl(s).severity
            /\ \A k \in (Len(sess[s].alerts) + 1)..Len(sess'[s].alerts) :
                 sess'[s].alerts[k].severity = CurrentControl(s).severity]_vars

\* C24 witness: CC6.1 was evaluated while high; a later refresh made its Control
\* row medium, and the committed Evaluation still says high
C24_Witness ==
  /\ Running(1)
  /\ \E i \in 1..Len(controls) :
       controls[i].control_id = "CC6.1" /\ controls[i].severity = "medium"
  /\ \E e \in Rows(evaluations) : e.control_id = "CC6.1" /\ e.severity = "high"
  /\ evaluations = sess[1].before.evaluations

\* C25: the Control table never holds two rows with one control_id, and no
\* step removes a row or changes a row's control_id or id, also when the
\* row's definition is gone from the directory at the refresh.
C25_ControlIdentityStable ==
  /\ [](\A i, j \in 1..Len(controls) :
          controls[i].control_id = controls[j].control_id => i = j)
  /\ [][/\ Len(controls) <= Len(controls')
        /\ \A i \in 1..Len(controls) :
             /\ controls'[i].control_id = controls[i].control_id
             /\ controls'[i].id = controls[i].id]_vars

\* C25 witness: a refresh has run over a directory that no longer defines
\* ZZ9.9; its row is there as the first refresh created it
C25_Witness ==
  /\ Running(1)
  /\ "zz9_9.yml" \notin DOMAIN yaml
  /\ Len(sess[1].controls) = 3
  /\ Len(sess[1].before.controls) = 4
  /\ Len(controls) = 4
  /\ controls[4].control_id = "ZZ9.9"
  /\ controls[4] = sess[1].before.controls[4]

\* the expected state demands flag f
Required(f) == Get(probe.control.expected_state, f, FALSE)

\* the snapshot reports flag f as true
Reports(snap, f) == Get(snap, f, FALSE)

\* the branch whose protection the CC8.1 rule reads: main's, or master's when
\* no protection is recorded for main
ProtectedBranch ==
  LET branch_protection == Get(SnapshotOf("github"), "branch_protection", EmptyDict)
  IN IF "main" \in DOMAIN branch_protection /\ branch_protection["main"] # EmptyDict
     THEN branch_protection["main"]
     ELSE IF "master" \in DOMAIN branch_protection THEN branch_protection["master"]
     ELSE EmptyDict

PrReviewsMet ==
  \/ Reports(SnapshotOf("github"), "pr_reviews_required")
  \/ Get(ProtectedBranch, "required_approving_review_count", 0) >= 2

DeployApprovalsMet ==
  \/ Reports(SnapshotOf("github"), "production_deploy_approvals_required")
  \/ Reports(SnapshotOf("cicd"), "production_deploy_approvals_required")
  \/ Reports(ProtectedBranch, "enforce_admins")

\* the conditions of the probe's rule in their check order, each with whether
\* the snapshots violate it and the issue text it is reported with
RuleConditions ==
  LET cid == probe.control.control_id
      without_mfa == Get(SnapshotOf("cloud_iam"), "admin_users_without_mfa", 999)
      retention == Get(SnapshotOf("cicd"), "log_retention_days", 0)
      minimum == Get(probe.control.expected_state, "log_retention_days_minimum", 0)
  IN IF cid = "CC6.1"
     THEN << [ violated |-> /\ Required("mfa_required_for_privileged_users")
                            /\ ~Reports(SnapshotOf("cloud_iam"),
                                        "mfa_required_for_privileged_users"),
               issue |-> "MFA not required for privileged users" ],
             [ violated |-> /\ Required("admin_access_restricted")
                            /\ ~Reports(SnapshotOf("cloud_iam"), "admin_access_restricted"),
               issue |-> "Admin access not properly restricted" ],
             [ violated |-> without_mfa > 0,
               issue |-> ToString(without_mfa) \o " admin user(s) without MFA" ] >>
     ELSE IF cid = "CC7.2"
     THEN << [ violated |-> /\ Required("centralized_logging_enabled")
                            /\ ~Reports(SnapshotOf("cicd"), "centralized_logging_enabled"),
               issue |-> "Centralized logging not enabled" ],
             [ violated |-> retention < minimum,
               issue |-> "Log retention " \o ToString(retention)
                         \o " days is below minimum " \o ToString(minimum) \o " days" ] >>
     ELSE << [ violated |-> Required("pr_reviews_required") /\ ~PrReviewsMet,
               issue |-> "PR reviews not required for production branches" ],
             [ violated |-> /\ Required("production_deploy_approvals_required")
                            /\ ~DeployApprovalsMet,
               issue |-> "Production deploy approvals not enforced" ] >>

IsViolated(c) == c.violated

\* C26: the issue list of a verdict has one entry for each violated condition
\* of the control's rule, in the rule's check order, and no other entry; a
\* verdict without issue list is one where no condition is violated.
C26_EveryIssueReported ==
  Returned =>
    LET unmet == SelectSeq(RuleConditions, IsViolated)
        issues == Get(Verdict.details, "issues", <<>>)
    IN /\ Len(issues) = Len(unmet)
       /\ \A k \in 1..Len(unmet) : issues[k] = unmet[k].issue

\* C26 witness: CC6.1 with the MFA flag false, the admin-restriction flag
\* false and 2 admins without MFA: three issues in that order
C26_Witness ==
  /\ Returned
  /\ probe.control.control_id = "CC6.1"
  /\ probe.control.expected_state = cc6_1_expected
  /\ Verdict.details.issues
       = << "MFA not required for privileged users",
            "Admin access not properly restricted",
            "2 admin user(s) without MFA" >>

\* the calls on the probe's control identifier and expected state, with any
\* snapshot mapping, that give FAIL
FailingCallsOfSameControl ==
  { i \in ProbeInputs :
      /\ i.control.control_id = probe.control.control_id
      /\ i.control.expected_state = probe.control.expected_state
      /\ evaluate_control(i.control, i.evidence_by_source).status = "FAIL" }

\* C27: for a fixed reference control and expected state, every snapshot
\* mapping that gives FAIL gives the same remediation text, whatever issues
\* each of them reports.
C27_RemediationIndependentOfIssues ==
  (Returned /\ Verdict.status = "FAIL") =>
    \A i \in FailingCallsOfSameControl :
      evaluate_control(i.control, i.evidence_by_source).remediation = Verdict.remediation

\* C27 witness: a CC8.1 verdict with the deploy-approval issue only, while another
\* mapping fails the same control with the PR-review issue only
C27_Witness ==
  /\ Returned
  /\ probe.control.control_id = "CC8.1"
  /\ Verdict.status = "FAIL"
  /\ Verdict.details.issues = << "Production deploy approvals not enforced" >>
  /\ \E i \in FailingCallsOfSameControl :
       evaluate_control(i.control, i.evidence_by_source).details.issues
         = << "PR reviews not required for production branches" >>

\* C28: CC7.2 is FAIL exactly when centralized logging is required and the
\* cicd snapshot does not report it enabled, or the snapshot's
\* log_retention_days is less than the required log_retention_days_minimum; a
\* retention equal to the minimum is not below it; without a cicd snapshot the
\* rule sees logging disabled and a retention of 0.
C28_Cc72Rule ==
  (Returned /\ probe.control.control_id = "CC7.2") =>
    LET expected == probe.control.expected_state
        cicd == SnapshotOf("cicd")
        minimum == Get(expected, "log_retention_days_minimum", 0)
        retention == Get(cicd, "log_retention_days", 0)
        logging_missing ==
          /\ Required("centralized_logging_enabled")
          /\ ~Reports(cicd, "centralized_logging_enabled")
    IN /\ Verdict.status \in {"PASS", "FAIL"}
       /\ Verdict.status = "FAIL" <=> (logging_missing \/ retention < minimum)
       /\ (~logging_missing /\ retention = minimum) => Verdict.status = "PASS"
       /\ "cicd" \notin DOMAIN probe.evidence_by_source =>
            /\ Verdict.details.actual.log_retention_days = 0
            /\ Verdict.details.actual.centralized_logging_enabled = FALSE
            /\ Verdict.status = "FAIL"
                 <=> (Required("centralized_logging_enabled") \/ 0 < minimum)

\* C28 witness: the collector's snapshot (logging enabled, retention 90) against
\* a required minimum of 90: PASS
C28_Witness ==
  /\ Returned
  /\ probe.control.control_id = "CC7.2"
  /\ probe.control.expected_state
       = [ centralized_logging_enabled |-> TRUE, log_retention_days_minimum |-> 90 ]
  /\ probe.evidence_by_source = ("cicd" :> collect_logging_evidence("CC7.2", 1))
  /\ Verdict.details.actual.log_retention_days = 90
  /\ Verdict.status = "PASS"

PrIssue == "PR reviews not required for production branches"
DeployIssue == "Production deploy approvals not enforced"

\* C29: in a CC8.1 verdict the PR-review requirement counts as met exactly when
\* the github snapshot's pr_reviews_required is true or the protection of main
\* (of master when none is recorded for main) requires at least 2 approving
\* reviews; the deploy-approval requirement exactly when the github flag, the
\* cicd flag or that branch's enforce_admins is true; the verdict is FAIL
\* exactly when a requirement the expected state demands is not met, with that
\* requirement's issue, and a requirement it does not demand gives no issue.
C29_Cc81Rule ==
  (Returned /\ probe.control.control_id = "CC8.1") =>
    LET issues == Get(Verdict.details, "issues", <<>>)
        Reported(text) == \E k \in 1..Len(issues) : issues[k] = text
    IN /\ Verdict.details.actual.pr_reviews_required = PrReviewsMet
       /\ Verdict.details.actual.production_deploy_approvals_required = DeployApprovalsMet
       /\ Verdict.status \in {"PASS", "FAIL"}
       /\ Verdict.status = "FAIL"
            <=> \/ Required("pr_reviews_required") /\ ~PrReviewsMet
                \/ Required("production_deploy_approvals_required") /\ ~DeployApprovalsMet
       /\ Reported(PrIssue) <=> (Required("pr_reviews_required") /\ ~PrReviewsMet)
       /\ Reported(DeployIssue)
            <=> (Required("production_deploy_approvals_required") /\ ~DeployApprovalsMet)

\* C29 witness: both requirements demanded, no flag in either snapshot, no main
\* branch, master with 1 approving review and enforce_admins: the PR-review
\* requirement is not met, the deploy-approval requirement is
C29_Witness ==
  /\ Returned
  /\ probe.control.control_id = "CC8.1"
  /\ Required("pr_reviews_required")
  /\ Required("production_deploy_approvals_required")
  /\ SnapshotOf("github")
       = [ branch_protection |->
             [ master |-> [ required_approving_review_count |-> 1,
                            enforce_admins |-> TRUE ] ] ]
  /\ SnapshotOf("cicd") = EmptyDict
  /\ Verdict.status = "FAIL"
  /\ Verdict.details.issues = << PrIssue >>

\* C30: an iteration adds at most one Alert, and only together with a FAIL
\* Evaluation of its control at the run's timestamp; the Alert has that
\* control's identifier, severity high, acknowledged false, the remediation of
\* that Evaluation (the verdict's), and a message with the control's identifier
\* and name.  In the store, every Alert has such an Evaluation and no run has
\* two Alerts for one control.
C30_AlertContent ==
  /\ [][\A s \in Sessions :
          (AtControl(s) /\ sess'[s].pc = "running") =>
            LET control == CurrentControl(s)
                al == SubSeq(sess'[s].alerts, Len(sess[s].alerts) + 1, Len(sess'[s].alerts))
                evals == SubSeq(sess'[s].evaluations, Len(sess[s].evaluations) + 1,
                                Len(sess'[s].evaluations))
            IN /\ Len(al) <= 1
               /\ \A k \in 1..Len(al) :
                    /\ al[k].control_id = control.control_id
                    /\ al[k].severity = "high"
                    /\ al[k].acknowledged = FALSE
                    /\ al[k].message = "Control " \o control.control_id \o " ("
                                       \o control.name \o ") failed after previously passing"
                    /\ Len(evals) = 1
                    /\ evals[1].control_id = control.control_id
                    /\ evals[1].evaluated_at = sess[s].run_at
                    /\ evals[1].status = "FAIL"
                    /\ al[k].remediation = evals[1].remediation
                    /\ al[k].remediation # "No action required."]_vars
  /\ [](/\ \A a \in Rows(alerts) :
             /\ a.severity = "high"
             /\ a.acknowledged = FALSE
             /\ \E e \in Rows(evaluations) :
                  /\ e.control_id = a.control_id
                  /\ e.evaluated_at = a.run_at
                  /\ e.status = "FAIL"
                  /\ e.remediation = a.remediation
        /\ \A i, j \in 1..Len(alerts) :
             (alerts[i].control_id = alerts[j].control_id
                /\ alerts[i].run_at = alerts[j].run_at) => i = j)

\* C30 witness: the committed Alert of CC6.1's regression, with the message and
\* the remediation of the run's FAIL Evaluation
C30_Witness ==
  \E a \in Rows(alerts) :
    /\ a.control_id = "CC6.1"
    /\ a.message = "Control CC6.1 (Logical Access Controls) failed after previously passing"
    /\ a.remediation = cc6_1_remediation
    /\ a.acknowledged = FALSE
    /\ \E e \in Rows(evaluations) :
         /\ e.control_id = "CC6.1" /\ e.evaluated_at = a.run_at
         /\ e.status = "FAIL" /\ e.remediation = a.remediation

\* the number of sources the controls of a list declare, all together
RECURSIVE DeclaredSources(_)
DeclaredSources(control_list) ==
  IF control_list = <<>> THEN 0
  ELSE Len(Head(control_list).evidence_sources) + DeclaredSources(Tail(control_list))

\* the positions of the run's controls, in processing order, whose identifier
\* failed_controls lists
ListedPositions(s) ==
  [ k \in 1..Len(sess[s].summary.failed_controls) |->
      CHOOSE i \in 1..Len(sess[s].controls) :
        sess[s].controls[i].control_id = sess[s].summary.failed_controls[k].control_id ]

\* C31: the summary a run returns is consistent: controls_processed equals
\* controls_passed + controls_failed and equals evaluations_created;
\* failed_controls has controls_failed entries, in processing order;
\* evidence_collected is the number of sources the processed controls declare;
\* alerts_created is at most controls_failed.
C31_SummaryConsistent ==
  \A s \in Sessions :
    sess[s].pc = "returned" =>
      LET summary == sess[s].summary
      IN /\ summary.controls_processed = summary.controls_passed + summary.controls_failed
         /\ summary.controls_processed = summary.evaluations_created
         /\ Len(summary.failed_controls) = summary.controls_failed
         /\ \A k \in 1..(Len(summary.failed_controls) - 1) :
              ListedPositions(s)[k] < ListedPositions(s)[k + 1]
         /\ summary.evidence_collected = DeclaredSources(sess[s].controls)
         /\ summary.alerts_created <= summary.controls_failed

\* the invocation of session s carries a timestamp for which the store
\* already held Evidence or an Evaluation when it began
TimestampUsed(s) ==
  \/ \E r \in Rows(sess[s].before.evidence) : r.collected_at = sess[s].run_at
  \/ \E e \in Rows(sess[s].before.evaluations) : e.evaluated_at = sess[s].run_at

\* C32: an invocation with a timestamp the store already holds rows for never
\* returns; when its loop ends it, the error is the IntegrityError of the unique
\* index; once it has raised, the Evidence, Evaluation and Alert tables are as
\* they were when it began.
C32_UsedTimestampRejected ==
  /\ [](\A s \in Sessions :
          TimestampUsed(s) =>
            /\ sess[s].pc # "returned"
            /\ sess[s].pc = "raised" =>
                 /\ evidence = sess[s].before.evidence
                 /\ evaluations = sess[s].before.evaluations
                 /\ alerts = sess[s].before.alerts)
  /\ [][\A s \in Sessions :
          (TimestampUsed(s) /\ AtControl(s) /\ sess'[s].pc = "raised"
             /\ sess'[s].error # "OperationalError")
          => sess'[s].error = "IntegrityError"]_vars

\* C32 witness: a run at the timestamp of a committed passing run, now with
\* drift (CC6.1 would regress), has raised IntegrityError; the store has the
\* first run's rows and no Alert
C32_Witness ==
  /\ sess[1].pc = "raised"
  /\ sess[1].error = "IntegrityError"
  /\ simulate_drift
  /\ \E e \in Rows(evaluations) :
       e.control_id = "CC6.1" /\ e.evaluated_at = sess[1].run_at /\ e.status = "PASS"
  /\ evaluations = sess[1].before.evaluations
  /\ evidence = sess[1].before.evidence
  /\ alerts = <<>>

\* the rows of a table that belong to one control
RowsOfControl(rows, control_id) ==
  LET Mine(r) == r.control_id = control_id
  IN SelectSeq(rows, Mine)

\* the iteration session s is about to run, run instead on a store that holds
\* the records of its control only: every Evidence, Evaluation and Alert of
\* another control, committed or flushed, is taken away
IterationAlone(s) ==
  LET cid == CurrentControl(s).control_id
      alone == [sess[s] EXCEPT !.evidence = RowsOfControl(@, cid),
                               !.evaluations = RowsOfControl(@, cid),
                               !.alerts = RowsOfControl(@, cid)]
      r == process_control(alone, CurrentControl(s), simulate_drift,
                           [ evidence |-> RowsOfControl(evidence, cid),
                             evaluations |-> RowsOfControl(evaluations, cid) ],
                           [ evidence |-> <<>>, evaluations |-> <<>> ], next_id)
  IN [ outcome |-> r.outcome,
       evaluations |-> SubSeq(r.se.evaluations, Len(alone.evaluations) + 1,
                              Len(r.se.evaluations)),
       alerts |-> SubSeq(r.se.alerts, Len(alone.alerts) + 1, Len(r.se.alerts)) ]

\* C33: what an iteration does for its control is what it does on a store that
\* holds that control's records only: the same Evaluation, the same decision to
\* add an Alert (and the same Alert), the same IntegrityError.  So two stores
\* that agree on the control's records give the same Evaluation and decision.
C33_PerControlIndependence ==
  [][\A s \in Sessions :
       (AtControl(s) /\ sess'[s] # sess[s] /\ sess'[s].error # "OperationalError") =>
         /\ sess'[s].pc = "running" <=> IterationAlone(s).outcome = "ok"
         /\ sess'[s].pc = "raised" <=> IterationAlone(s).outcome = "IntegrityError"
         /\ sess'[s].pc = "running" =>
              /\ SubSeq(sess'[s].evaluations, Len(sess[s].evaluations) + 1,
                        Len(sess'[s].evaluations)) = IterationAlone(s).evaluations
              /\ SubSeq(sess'[s].alerts, Len(sess[s].alerts) + 1, Len(sess'[s].alerts))
                   = IterationAlone(s).alerts]_vars

\* C33 witness: the first iteration over the high-severity ZZ9.9 has written
\* its FAIL Evaluation and no Alert, in a store where the three other controls
\* have PASS Evaluations of an earlier run and of this one
C33_Witness ==
  /\ Running(1)
  /\ sess[1].idx = 5
  /\ Len(sess[1].evaluations) = 4
  /\ sess[1].evaluations[4].control_id = "ZZ9.9"
  /\ sess[1].evaluations[4].status = "FAIL"
  /\ sess[1].evaluations[4].severity = "high"
  /\ sess[1].alerts = <<>>
  /\ sess[1].before.evaluations # <<>>
  /\ \A e \in Rows(sess[1].before.evaluations) :
       e.control_id # "ZZ9.9" /\ e.status = "PASS" /\ e.evaluated_at < sess[1].run_at

\* the prior Evaluation the drift check of session s reads for its control
PriorRead(s) ==
  prev_eval_query(Visible(evaluations, s, "evaluations"), CurrentControl(s).control_id)

\* C34: whether an iteration that writes a FAIL Evaluation after a PASS adds an
\* Alert is decided by the control's severity in this run, not by the severity
\* on the prior Evaluation: after a PASS recorded as medium or low, a control
\* that is now high gets its Alert; after a PASS recorded as high, a control
\* that is now medium or low gets none.
C34_CurrentSeverityDecides ==
  [][\A s \in Sessions :
       (/\ AtControl(s) /\ sess'[s].pc = "running"
        /\ Len(sess'[s].evaluations) = Len(sess[s].evaluations) + 1
        /\ sess'[s].evaluations[Len(sess'[s].evaluations)].status = "FAIL"
        /\ PriorRead(s) # <<>>
        /\ PriorRead(s)[1].status = "PASS")
       => /\ (PriorRead(s)[1].severity # "high" /\ CurrentControl(s).severity = "high")
               => /\ Len(sess'[s].alerts) = Len(sess[s].alerts) + 1
                  /\ sess'[s].alerts[Len(sess'[s].alerts)].control_id
                       = CurrentControl(s).control_id
          /\ (PriorRead(s)[1].severity = "high" /\ CurrentControl(s).severity # "high")
               => sess'[s].alerts = sess[s].alerts
          /\ Len(sess'[s].alerts) = Len(sess[s].alerts) + 1
               <=> CurrentControl(s).severity = "high"]_vars

\* C34 witness: CC6.1 passed while medium, was redefined as high and failed in
\* the next run, which added its Alert
C34_Witness ==
  /\ sess[1].pc = "returned"
  /\ \E e \in Rows(evaluations) :
       /\ e.control_id = "CC6.1" /\ e.severity = "high"
       /\ PassThenFail(evaluations, e)
       /\ Preceding(evaluations, e)[1].severity = "medium"
       /\ AlertsOf(alerts, "CC6.1", e.evaluated_at) # {}
       /\ e.evaluated_at = sess[1].run_at
       /\ e.evaluated_at = last_run_at

\* a second reachable case of C34: CC6.1 passed while high, was redefined as
\* medium and failed in the next run, which added no Alert
HighThenMediumNoAlert ==
  /\ sess[1].pc = "returned"
  /\ alerts = <<>>
  /\ \E e \in Rows(evaluations) :
       /\ e.control_id = "CC6.1" /\ e.severity = "medium"
       /\ PassThenFail(evaluations, e)
       /\ Preceding(evaluations, e)[1].severity = "high"
       /\ e.evaluated_at = last_run_at

====
